---- MODULE Spec2Model ----
(***************************************************************************)
(* A model of the attendance pipeline of src/src/state.rs:                 *)
(* load_attendance and the functions it calls (reading the rows of a       *)
(* session file, deduplicating participants, classifying them, folding a   *)
(* session into the per-student records, scoring and sorting).             *)
(* src/src/core.rs holds the same functions over in-memory file contents   *)
(* (parse_csv_participants, generate_report), statement for statement.     *)
(* parse_config, the choice of the source files, detect_delimiter, the     *)
(* fold over whole sessions (SpecReport), save_report (SpecSave) and the   *)
(* messages of App::update in src/src/main.rs (SpecUi) each have a         *)
(* specification of their own further down.                                *)
(*                                                                         *)
(* Text is a sequence of tokens.  The characters of names, e-mail          *)
(* addresses and column titles are single-character tokens; in a join      *)
(* timestamp the date and the time of day are one token each.              *)
(* A NaiveDateTime is the number of seconds since 00:00:00 of day 0, a     *)
(* NaiveTime the number of seconds since midnight.  Point values (f32)     *)
(* are counted in halves of a point, which f32 represents exactly.         *)
(***************************************************************************)
EXTENDS Integers, Sequences, FiniteSets, TLC

VARIABLES
    pc,                 \* position in load_attendance / in the function under study
    config,             \* ConfigValues
    files_read,         \* number of entries of `files` the loop has consumed
    header,             \* Option<Vec<String>> of the file being read
    participants,       \* HashMap<String, Participant> of the file being read
    students,           \* HashMap<String, StudentRecord>
    sessions_processed, \* usize
    session,            \* what the last completed iteration of the file loop did
    tally,              \* per key, the number of sessions classified with each status
                        \* and the number of sessions folded before the key's first one
    report,             \* the Result returned by load_attendance
    input,              \* the arguments of the function under study
    output,             \* its result
    state,              \* AppState, the fields App::update reads and writes
    io,                 \* the file system operations load_attendance has made
    commands,           \* the commands App::update returned whose message is still to come
    picked              \* the StudentRecord on the button the user pressed last

vars == <<pc, config, files_read, header, participants, students,
          sessions_processed, session, tally, report, input, output, state, io,
          commands, picked>>

(***************************************************************************)
(* Option and Result                                                       *)
(***************************************************************************)
None == [is_some |-> FALSE]
Some(v) == [is_some |-> TRUE, value |-> v]
Ok(v) == [is_ok |-> TRUE, value |-> v]
Err(e) == [is_ok |-> FALSE, error |-> e]

(***************************************************************************)
(* Text                                                                    *)
(***************************************************************************)
EmptyString == <<>>
Space == " "
Tab == "\t"
At == "@"

\* char::is_whitespace, on the characters of the model
is_whitespace(c) == c \in {Space, Tab}

RECURSIVE trim_start(_)
trim_start(s) ==
    IF Len(s) > 0 /\ is_whitespace(Head(s)) THEN trim_start(Tail(s)) ELSE s

RECURSIVE trim_end(_)
trim_end(s) ==
    IF Len(s) > 0 /\ is_whitespace(s[Len(s)])
    THEN trim_end(SubSeq(s, 1, Len(s) - 1))
    ELSE s

\* str::trim
trim(s) == trim_end(trim_start(s))

\* the longest prefix of s that does not hold c
RECURSIVE take_until(_, _)
take_until(s, c) ==
    IF Len(s) = 0 \/ Head(s) = c THEN <<>>
    ELSE <<Head(s)>> \o take_until(Tail(s), c)

\* the longest prefix of s that holds no whitespace
RECURSIVE take_word(_)
take_word(s) ==
    IF Len(s) = 0 \/ is_whitespace(Head(s)) THEN <<>>
    ELSE <<Head(s)>> \o take_word(Tail(s))

\* str::split_whitespace: the non-empty words of s, in order
RECURSIVE split_whitespace(_)
split_whitespace(s) ==
    LET t == trim_start(s)
    IN  IF Len(t) = 0 THEN <<>>
        ELSE LET w == take_word(t)
             IN  <<w>> \o split_whitespace(SubSeq(t, Len(w) + 1, Len(t)))

\* [&str]::join(sep)
RECURSIVE join(_, _)
join(parts, sep) ==
    IF Len(parts) = 0 THEN <<>>
    ELSE IF Len(parts) = 1 THEN parts[1]
    ELSE parts[1] \o sep \o join(Tail(parts), sep)

split_name(text) ==
    LET parts == split_whitespace(text)
    IN  IF Len(parts) = 0 THEN [name |-> EmptyString, surname |-> EmptyString]
        ELSE IF Len(parts) = 1 THEN [name |-> parts[1], surname |-> EmptyString]
        ELSE [name |-> parts[1], surname |-> join(Tail(parts), <<Space>>)]

\* email.split('@').next(): the text before the first "@", all of it when there is none
extract_id(email) == take_until(email, At)

(***************************************************************************)
(* Time                                                                    *)
(***************************************************************************)
\* i64 division, which truncates toward zero
TruncDiv(a, b) == IF a >= 0 THEN a \div b ELSE -((-a) \div b)

\* NaiveDateTime::date, as a day number
date(t) == t \div 86400

\* NaiveDateTime::new(date, time)
NaiveDateTimeNew(d, time) == d * 86400 + time

\* TimeDelta::num_minutes
num_minutes(delta) == TruncDiv(delta, 60)

Max(a, b) == IF a >= b THEN a ELSE b

(***************************************************************************)
(* Join timestamps.  chrono's parser is tabulated for the date and time    *)
(* tokens that occur: "%m/%d/%y" reads a two-digit year (20yy), "%m/%d/%Y" *)
(* a four-digit one; the second pattern only ever sees a text the first    *)
(* one rejected.  Day 0 is 1 January 2024.                                 *)
(***************************************************************************)
DateTwoDigitYear ==
    [x \in {"1/1/24", "1/2/24"} |-> IF x = "1/1/24" THEN 0 ELSE 1]

DateFullYear ==
    [x \in {"1/1/2024", "1/2/2024"} |-> IF x = "1/1/2024" THEN 0 ELSE 1]

\* "%I:%M:%S": hour of the 12-hour clock, minute, second
TimeOfDay12 ==
    [x \in {"12:45:00", "1:25:00", "1:30:00", "1:40:59", "1:41:00", "2:00:59", "2:01:00"} |->
        CASE x = "12:45:00" -> <<12, 45, 0>>
          [] x = "1:25:00" -> <<1, 25, 0>>
          [] x = "1:30:00" -> <<1, 30, 0>>
          [] x = "1:40:59" -> <<1, 40, 59>>
          [] x = "1:41:00" -> <<1, 41, 0>>
          [] x = "2:00:59" -> <<2, 0, 59>>
          [] x = "2:01:00" -> <<2, 1, 0>>]

\* NaiveDateTime::parse_from_str(text, "<dates>, %I:%M:%S %p")
parse_from_str(text, dates) ==
    IF /\ Len(text) = 6
       /\ text[1] \in DOMAIN dates
       /\ text[2] = ","
       /\ text[3] = Space
       /\ text[4] \in DOMAIN TimeOfDay12
       /\ text[5] = Space
       /\ text[6] \in {"AM", "PM"}
    THEN LET hms == TimeOfDay12[text[4]]
             hour == (hms[1] % 12) + (IF text[6] = "PM" THEN 12 ELSE 0)
         IN  Ok(NaiveDateTimeNew(dates[text[1]], hour * 3600 + hms[2] * 60 + hms[3]))
    ELSE Err("parse")

parse_datetime(text) ==
    LET first == parse_from_str(text, DateTwoDigitYear)
    IN  IF first.is_ok THEN first
        ELSE LET second == parse_from_str(text, DateFullYear)
             IN  IF second.is_ok THEN second ELSE Err("Invalid datetime")

(***************************************************************************)
(* Rows                                                                    *)
(***************************************************************************)
NameTitle == <<"N", "a", "m", "e">>
FirstJoinTitle == <<"F", "i", "r", "s", "t", " ", "J", "o", "i", "n">>
EmailTitle == <<"E", "m", "a", "i", "l">>

\* Iterator::position, counted from 1; 0 when there is none
RECURSIVE position_from(_, _, _)
position_from(cells, wanted, i) ==
    IF i > Len(cells) THEN 0
    ELSE IF cells[i] = wanted THEN i
    ELSE position_from(cells, wanted, i + 1)

position(cells, wanted) == position_from(cells, wanted, 1)

\* StringRecord::get(index).map(trim).unwrap_or_default()
trimmed_cell(record, index) ==
    IF index >= 1 /\ index <= Len(record) THEN trim(record[index]) ELSE EmptyString

\* build_key with the e-mail address tried before the token
build_key_email_first(participant) ==
    IF Len(participant.email) > 0 THEN participant.email
    ELSE IF Len(participant.id) > 0 THEN participant.id
    ELSE participant.name \o <<Space>> \o participant.surname

build_key(participant) ==
    IF Len(participant.id) > 0 THEN participant.id
    ELSE IF Len(participant.email) > 0 THEN participant.email
    ELSE participant.name \o <<Space>> \o participant.surname

\* Result<Option<Participant>, String>
parse_participant_row(head, record) ==
    LET name_index == position(head, NameTitle)
        join_index == position(head, FirstJoinTitle)
        email_index == position(head, EmailTitle)
    IN  IF name_index = 0 \/ join_index = 0 THEN Ok(None)
        ELSE LET name == trimmed_cell(record, name_index)
             IN  IF Len(name) = 0 \/ name = NameTitle THEN Ok(None)
                 ELSE LET join_value == trimmed_cell(record, join_index)
                      IN  IF Len(join_value) = 0 THEN Ok(None)
                          ELSE LET email == IF email_index = 0 THEN EmptyString
                                            ELSE trimmed_cell(record, email_index)
                                   first_join == parse_datetime(join_value)
                                   names == split_name(name)
                               IN  IF ~first_join.is_ok THEN Err(first_join.error)
                                   ELSE Ok(Some([name |-> names.name,
                                                 surname |-> names.surname,
                                                 id |-> extract_id(email),
                                                 email |-> email,
                                                 first_join |-> first_join.value]))

\* HashMap::entry(key).and_modify(keep the earlier join).or_insert(participant)
\* keep_earlier with the comparison turned round
keep_later(existing, participant) ==
    IF participant.first_join > existing.first_join THEN participant ELSE existing

\* keep_earlier replacing on equal join times too
keep_last_on_tie(existing, participant) ==
    IF participant.first_join <= existing.first_join THEN participant ELSE existing

keep_earlier(existing, participant) ==
    IF participant.first_join < existing.first_join THEN participant ELSE existing

insert_participant(map, participant) ==
    LET key == build_key(participant)
    IN  IF key \in DOMAIN map
        THEN [map EXCEPT ![key] = keep_earlier(map[key], participant)]
        ELSE [k \in DOMAIN map \cup {key} |-> IF k = key THEN participant ELSE map[k]]

EmptyMap == [k \in {} |-> 0]

\* read_record that passes over a row whose join time does not parse
read_record_skips_unreadable(st, record) ==
    IF ~st.header.is_some /\ (\E i \in 1..Len(record) : record[i] = NameTitle)
    THEN Ok([st EXCEPT !.header = Some([i \in 1..Len(record) |-> trim(record[i])])])
    ELSE IF ~st.header.is_some THEN Ok(st)
    ELSE LET parsed == parse_participant_row(st.header.value, record)
         IN  IF ~parsed.is_ok \/ ~parsed.value.is_some THEN Ok(st)
             ELSE Ok([st EXCEPT !.participants = insert_participant(@, parsed.value.value)])

\* read_record that takes every row with a cell "Name" as the header
read_record_rereads_header(st, record) ==
    IF \E i \in 1..Len(record) : record[i] = NameTitle
    THEN Ok([st EXCEPT !.header = Some([i \in 1..Len(record) |-> trim(record[i])])])
    ELSE IF ~st.header.is_some THEN Ok(st)
    ELSE LET parsed == parse_participant_row(st.header.value, record)
         IN  IF ~parsed.is_ok THEN Err(parsed.error)
             ELSE IF ~parsed.value.is_some THEN Ok(st)
             ELSE Ok([st EXCEPT !.participants = insert_participant(@, parsed.value.value)])

\* One iteration of the loop over reader.records(): st is the pair of locals
\* (header, participants), the result the new pair or the error returned.
read_record(st, record) ==
    IF ~st.header.is_some /\ (\E i \in 1..Len(record) : record[i] = NameTitle)
    THEN Ok([st EXCEPT !.header = Some([i \in 1..Len(record) |-> trim(record[i])])])
    ELSE IF ~st.header.is_some THEN Ok(st)
    ELSE LET parsed == parse_participant_row(st.header.value, record)
         IN  IF ~parsed.is_ok THEN Err(parsed.error)
             ELSE IF ~parsed.value.is_some THEN Ok(st)
             ELSE Ok([st EXCEPT !.participants =
                                    insert_participant(@, parsed.value.value)])

\* The whole loop over the records of one file.
RECURSIVE read_records(_, _)
read_records(st, records) ==
    IF Len(records) = 0 THEN Ok(st)
    ELSE LET next == read_record(st, Head(records))
         IN  IF next.is_ok THEN read_records(next.value, Tail(records)) ELSE next

NewFile == [header |-> None, participants |-> EmptyMap]

(***************************************************************************)
(* Classification, tallying and scoring                                    *)
(***************************************************************************)
Normal == "Normal"
Late == "Late"
Absent == "Absent"
AttendanceStatus == {Normal, Late, Absent}

\* classify_attendance without .max(0)
classify_without_floor(participant, class_start, cfg) ==
    LET minutes == num_minutes(participant.first_join - class_start)
    IN  IF minutes <= cfg.late_minutes THEN Normal
        ELSE IF minutes <= cfg.absent_minutes THEN Late
        ELSE Absent

\* classify_attendance with < for the late threshold
classify_strictly_below(participant, class_start, cfg) ==
    LET minutes == Max(num_minutes(participant.first_join - class_start), 0)
    IN  IF minutes < cfg.late_minutes THEN Normal
        ELSE IF minutes <= cfg.absent_minutes THEN Late
        ELSE Absent

\* classify_attendance with the two thresholds exchanged
classify_thresholds_exchanged(participant, class_start, cfg) ==
    LET minutes == Max(num_minutes(participant.first_join - class_start), 0)
    IN  IF minutes <= cfg.absent_minutes THEN Normal
        ELSE IF minutes <= cfg.late_minutes THEN Late
        ELSE Absent

classify_attendance(participant, class_start, cfg) ==
    LET delta == participant.first_join - class_start
        minutes == Max(num_minutes(delta), 0)
    IN  IF minutes <= cfg.late_minutes THEN Normal
        ELSE IF minutes <= cfg.absent_minutes THEN Late
        ELSE Absent

apply_status(record, status) ==
    CASE status = Normal -> [record EXCEPT !.normal = @ + 1]
      [] status = Late -> [record EXCEPT !.late = @ + 1]
      [] status = Absent -> [record EXCEPT !.absent = @ + 1]

\* calculate_score without .max(0.0)
score_unclamped(record, cfg) ==
    cfg.total_points - (record.late * cfg.late_penalty + record.absent * cfg.absent_penalty)

\* points are counted in halves, so 0.5 is 1 and 10 is 20
calculate_score(record, cfg) ==
    LET deductions == (record.late * cfg.late_penalty) + (record.absent * cfg.absent_penalty)
        score == cfg.total_points - deductions
    IN  Max(score, 0)

(***************************************************************************)
(* One iteration of `for path in files`, after read_participants returned  *)
(* the vector `list` (participants.into_values().collect(): the values of  *)
(* the map in the order the hash map yields them).                         *)
(***************************************************************************)
\* participants.first().map(|p| p.first_join.date()).unwrap_or_else(1 January 1970):
\* the date of the first element of the vector, whatever its join time
session_date(list) ==
    IF Len(list) = 0 THEN -19723 ELSE date(list[1].first_join)

\* new_record with absent: 0
new_record_unseeded(participant, processed) ==
    [name |-> participant.name, surname |-> participant.surname,
     id |-> participant.id, email |-> participant.email,
     normal |-> 0, late |-> 0, absent |-> 0, score |-> 0]

\* the StudentRecord of or_insert_with
new_record(participant, processed) ==
    [name |-> participant.name, surname |-> participant.surname,
     id |-> participant.id, email |-> participant.email,
     normal |-> 0, late |-> 0, absent |-> processed, score |-> 0]

\* The loop `for participant in participants`: acc holds students,
\* session_keys and session_status.
RECURSIVE fold_participants(_, _, _, _, _)
fold_participants(acc, list, class_start, cfg, processed) ==
    IF Len(list) = 0 THEN acc
    ELSE LET participant == Head(list)
             key == build_key(participant)
             status == classify_attendance(participant, class_start, cfg)
             record == IF key \in DOMAIN acc.students THEN acc.students[key]
                       ELSE new_record(participant, processed)
             next ==
                [students |->
                    [k \in DOMAIN acc.students \cup {key} |->
                        IF k = key THEN apply_status(record, status) ELSE acc.students[k]],
                 session_keys |-> acc.session_keys \cup {key},
                 session_status |->
                    [k \in DOMAIN acc.session_status \cup {key} |->
                        IF k = key THEN status ELSE acc.session_status[k]]]
         IN  fold_participants(next, Tail(list), class_start, cfg, processed)

\* backfill without the loop
backfill_nobody(records, session_keys) == records

\* backfill without the session_keys test
backfill_everyone(records, session_keys) ==
    [k \in DOMAIN records |-> [records[k] EXCEPT !.absent = @ + 1]]

\* for (key, record) in students.iter_mut(): absent += 1 unless key is in session_keys
backfill(records, session_keys) ==
    [k \in DOMAIN records |->
        IF k \notin session_keys THEN [records[k] EXCEPT !.absent = @ + 1]
        ELSE records[k]]

\* skip_session without the early continue
skip_never(list) == FALSE

\* if participants.is_empty() { continue; }
skip_session(list) == Len(list) = 0

\* The body of the file loop: the new students and sessions_processed, with
\* the locals of the iteration.
session_step(records, processed, list, cfg) ==
    IF skip_session(list)
    THEN [students |-> records, sessions_processed |-> processed, skipped |-> TRUE,
          session_keys |-> {}, session_status |-> EmptyMap, class_start |-> 0]
    ELSE LET class_start == NaiveDateTimeNew(session_date(list), cfg.class_start)
             folded == fold_participants(
                           [students |-> records, session_keys |-> {},
                            session_status |-> EmptyMap],
                           list, class_start, cfg, processed)
         IN  [students |-> backfill(folded.students, folded.session_keys),
              sessions_processed |-> processed + 1,
              skipped |-> FALSE,
              session_keys |-> folded.session_keys,
              session_status |-> folded.session_status,
              class_start |-> class_start]

(***************************************************************************)
(* After the loop: scores, then the records sorted by surname, then name.  *)
(***************************************************************************)
\* the code points of the characters that occur in names and paths
CodePoint ==
    [c \in {" ", ".", "A", "B", "C", "L", "R", "a", "c", "i", "l", "o", "s", "v", "y"} |->
        CASE c = " " -> 32
          [] c = "." -> 46
          [] c = "c" -> 99
          [] c = "s" -> 115
          [] c = "v" -> 118
          [] c = "A" -> 65
          [] c = "B" -> 66
          [] c = "C" -> 67
          [] c = "L" -> 76
          [] c = "R" -> 82
          [] c = "a" -> 97
          [] c = "i" -> 105
          [] c = "l" -> 108
          [] c = "o" -> 111
          [] c = "y" -> 121]

\* str::cmp: "Less", "Equal" or "Greater", comparing code points in order
RECURSIVE cmp(_, _)
cmp(a, b) ==
    IF Len(a) = 0 /\ Len(b) = 0 THEN "Equal"
    ELSE IF Len(a) = 0 THEN "Less"
    ELSE IF Len(b) = 0 THEN "Greater"
    ELSE IF CodePoint[Head(a)] < CodePoint[Head(b)] THEN "Less"
    ELSE IF CodePoint[Head(a)] > CodePoint[Head(b)] THEN "Greater"
    ELSE cmp(Tail(a), Tail(b))

\* record_cmp with the given name compared first
record_cmp_name_first(a, b) ==
    LET by_name == cmp(a.name, b.name)
    IN  IF by_name = "Equal" THEN cmp(a.surname, b.surname) ELSE by_name

\* a.surname.cmp(&b.surname).then(a.name.cmp(&b.name))
record_cmp(a, b) ==
    LET by_surname == cmp(a.surname, b.surname)
    IN  IF by_surname = "Equal" THEN cmp(a.name, b.name) ELSE by_surname

\* insert x after the elements of the sorted sequence that are not greater
RECURSIVE insert_sorted(_, _)
insert_sorted(sorted, x) ==
    IF Len(sorted) = 0 THEN <<x>>
    ELSE IF record_cmp(x, Head(sorted)) = "Less" THEN <<x>> \o sorted
    ELSE <<Head(sorted)>> \o insert_sorted(Tail(sorted), x)

\* Vec::sort_by, a stable sort
RECURSIVE sort_by(_)
sort_by(list) ==
    IF Len(list) = 0 THEN <<>>
    ELSE insert_sorted(sort_by(SubSeq(list, 1, Len(list) - 1)), list[Len(list)])

\* for record in students.values_mut() { record.score = calculate_score(record, &config) }
with_scores(records, cfg) ==
    [k \in DOMAIN records |-> [records[k] EXCEPT !.score = calculate_score(records[k], cfg)]]

\* The orders in which a hash map of these entries can yield its values.
Orderings(map) ==
    LET keys == DOMAIN map
        n == Cardinality(keys)
    IN  { [i \in 1..n |-> map[order[i]]] :
            order \in { o \in [1..n -> keys] : \A i, j \in 1..n : i # j => o[i] # o[j] } }

(***************************************************************************)
(* Inputs                                                                  *)
(***************************************************************************)
MaxFiles == 2

\* 13:30, 10 and 30 minutes, 10 points, 0.5 and 1 point: AppState::new's values;
\* and a configuration whose absent threshold is below the late one, with 1.5 points
DefaultConfig ==
    [class_start |-> 13 * 3600 + 30 * 60, late_minutes |-> 10, absent_minutes |-> 30,
     total_points |-> 20, late_penalty |-> 1, absent_penalty |-> 2]

SmallConfig ==
    [class_start |-> 13 * 3600 + 30 * 60, late_minutes |-> 30, absent_minutes |-> 10,
     total_points |-> 3, late_penalty |-> 1, absent_penalty |-> 2]

Configs == {DefaultConfig, SmallConfig}

Stamp(day, time, half) == <<day, ",", " ", time, " ", half>>

AlRay == <<"A", "l", " ", "R", "a", "y">>
Bo == <<"B", "o">>
CyLi == <<"C", "y", " ", "L", "i">>
CyLiPadded == <<" ", "C", "y", " ", " ", "L", "i", " ">>
AlAtX == <<"a", "l", "@", "x">>
AlAtY == <<"a", "l", "@", "y">>
AtX == <<"@", "x">>

\* the records a session file is made of: <<name, first join, e-mail>>
HeaderRecord == <<NameTitle, FirstJoinTitle, EmailTitle>>
HeaderWithoutJoin == <<NameTitle, EmailTitle>>

DataRecords ==
    { <<AlRay, Stamp("1/1/24", "1:25:00", "PM"), AlAtX>>,
      <<AlRay, Stamp("1/1/2024", "1:41:00", "PM"), AlAtX>>,
      <<Bo, Stamp("1/1/24", "1:40:59", "PM"), AtX>>,
      <<Bo, Stamp("1/1/24", "2:01:00", "PM"), AtX>>,
      <<CyLi, Stamp("1/2/24", "1:30:00", "PM")>>,
      <<CyLiPadded, Stamp("1/1/24", "2:00:59", "PM"), EmptyString>> }

OddRecords ==
    { <<EmptyString, Stamp("1/1/24", "1:25:00", "PM"), AlAtX>>,
      <<Bo, EmptyString, AtX>>,
      <<Bo, <<"s", "o", "o", "n">>, AtX>> }

Records == {HeaderRecord, HeaderWithoutJoin} \cup DataRecords \cup OddRecords

(***************************************************************************)
(* load_attendance                                                         *)
(***************************************************************************)
NoSession == [done |-> FALSE]

\* AppState::new; a status line is the sequence of the pieces it is formatted from
AppStateNew ==
    [report_format |-> "Csv",
     report |-> None,
     selected_student |-> None,
     status |-> <<"Select a directory to begin.">>,
     is_busy |-> FALSE]

\* Message::RunAnalysis
run_analysis(st) ==
    [st EXCEPT !.status = <<"Analyzing attendance files...">>, !.is_busy = TRUE]

\* Message::AnalysisDone that keeps the report it had when the run failed
analysis_done_keeps_report(st, result) ==
    IF result.is_ok
    THEN [st EXCEPT !.is_busy = FALSE,
                    !.status = <<"Loaded ", Len(result.value.students),
                                 " students across ", result.value.sessions, " sessions.">>,
                    !.report = Some(result.value)]
    ELSE [st EXCEPT !.is_busy = FALSE, !.status = <<result.error>>]

\* Message::AnalysisDone
analysis_done(st, result) ==
    IF result.is_ok
    THEN [st EXCEPT !.is_busy = FALSE,
                    !.status = <<"Loaded ", Len(result.value.students),
                                 " students across ", result.value.sessions, " sessions.">>,
                    !.report = Some(result.value)]
    ELSE [st EXCEPT !.is_busy = FALSE, !.status = <<result.error>>, !.report = None]

\* Message::ReportFormatChanged
report_format_changed(st, format) == [st EXCEPT !.report_format = format]

\* Message::SelectStudent
select_student(st, index) == [st EXCEPT !.selected_student = Some(index)]

\* Message::ExportReport: the new state and the command returned, if any
export_report(st) ==
    IF st.report.is_some
    THEN [state |-> [st EXCEPT !.status = <<"Exporting report...">>, !.is_busy = TRUE],
          command |-> Some([perform |-> "save_report", report |-> st.report.value,
                            format |-> st.report_format])]
    ELSE [state |-> [st EXCEPT !.status = <<"Load attendance data before exporting.">>],
          command |-> None]

\* Message::ReportSaved
report_saved(st, result) ==
    IF result.is_ok
    THEN [st EXCEPT !.is_busy = FALSE, !.status = <<"Report saved to ", result.value>>]
    ELSE [st EXCEPT !.is_busy = FALSE, !.status = result.error]

\* a report an earlier run left in the state
PreviousReport ==
    [students |-> <<[name |-> Bo, surname |-> EmptyString, id |-> EmptyString,
                     email |-> AtX, normal |-> 1, late |-> 0, absent |-> 0,
                     score |-> DefaultConfig.total_points]>>,
     sessions |-> 1,
     total_points |-> DefaultConfig.total_points]

\* the state after Message::RunAnalysis, an earlier run having loaded a report
StateWhileAnalyzing ==
    run_analysis(analysis_done(run_analysis(AppStateNew), Ok(PreviousReport)))
NoTally == [sessions |-> 0, seen |-> EmptyMap, first |-> EmptyMap]

Init ==
    /\ pc = "loop"
    /\ config \in Configs
    /\ files_read = 0
    /\ header = None
    /\ participants = EmptyMap
    /\ students = EmptyMap
    /\ sessions_processed = 0
    /\ session = NoSession
    /\ tally = NoTally
    /\ report = None
    /\ state = StateWhileAnalyzing
    /\ io = <<>>
    /\ input = None
    /\ output = None
    /\ commands = <<>>
    /\ picked = None

\* `for path in files` takes the next path; read_csv_participants starts
OpenFile ==
    /\ pc = "loop"
    /\ files_read < MaxFiles
    /\ pc' = "records"
    /\ header' = None
    /\ participants' = EmptyMap
    /\ session' = NoSession
    /\ UNCHANGED <<config, files_read, students, sessions_processed, tally, report,
                   input, output, state, io>>
    /\ UNCHANGED <<commands, picked>>

\* one record of the file; an unreadable join time makes load_attendance return the error
ReadRecord ==
    /\ pc = "records"
    /\ \E record \in Records :
         LET next == read_record([header |-> header, participants |-> participants], record)
         IN  IF next.is_ok
             THEN /\ header' = next.value.header
                  /\ participants' = next.value.participants
                  /\ UNCHANGED <<pc, files_read, students, sessions_processed, tally, report>>
             ELSE /\ pc' = "done"
                  /\ report' = Err(next.error)
                  /\ header' = None
                  /\ participants' = EmptyMap
                  /\ students' = EmptyMap
                  /\ sessions_processed' = 0
                  /\ files_read' = files_read
                  /\ tally' = NoTally
    /\ UNCHANGED <<config, session, input, output, state, io>>
    /\ UNCHANGED <<commands, picked>>

\* std::fs::read of the next path fails: read_csv_text, and with it
\* load_attendance, returns the error
ReadFails ==
    /\ pc = "loop"
    /\ files_read < MaxFiles
    /\ pc' = "done"
    /\ report' = Err("Failed to read CSV")
    /\ header' = None
    /\ participants' = EmptyMap
    /\ students' = EmptyMap
    /\ sessions_processed' = 0
    /\ tally' = NoTally
    /\ session' = NoSession
    /\ UNCHANGED <<config, files_read, input, output, state, io>>
    /\ UNCHANGED <<commands, picked>>

\* the number of sessions classified with each status, per key
count_status(seen, session_status) ==
    [k \in DOMAIN seen \cup DOMAIN session_status |->
        LET old == IF k \in DOMAIN seen THEN seen[k]
                   ELSE [s \in AttendanceStatus |-> 0]
        IN  IF k \in DOMAIN session_status
            THEN [old EXCEPT ![session_status[k]] = @ + 1]
            ELSE old]

\* the number of sessions folded before the first one a key occurs in
first_session(first, session_keys, folded) ==
    [k \in DOMAIN first \cup session_keys |->
        IF k \in DOMAIN first THEN first[k] ELSE folded]

\* the end of the file: read_participants returns the values of the map in
\* hash order, and the rest of the loop body folds the session
EndOfFile ==
    /\ pc = "records"
    /\ \E list \in Orderings(participants) :
         LET step == session_step(students, sessions_processed, list, config)
         IN  /\ students' = step.students
             /\ sessions_processed' = step.sessions_processed
             /\ session' = [done |-> TRUE,
                            first_date |-> session_date(list),
                            members |-> {list[i] : i \in 1..Len(list)},
                            dedup_keys |-> DOMAIN participants,
                            session_keys |-> step.session_keys,
                            session_status |-> step.session_status,
                            class_start |-> step.class_start,
                            before |-> students,
                            processed_before |-> sessions_processed]
             /\ tally' = IF Len(list) = 0 THEN tally
                         ELSE [sessions |-> tally.sessions + 1,
                               seen |-> count_status(tally.seen, step.session_status),
                               first |-> first_session(tally.first, step.session_keys,
                                                       tally.sessions)]
    /\ pc' = "loop"
    /\ files_read' = files_read + 1
    /\ header' = None
    /\ participants' = EmptyMap
    /\ UNCHANGED <<config, report, input, output, state, io>>
    /\ UNCHANGED <<commands, picked>>

\* files.is_empty()
NoFiles ==
    /\ pc = "loop"
    /\ files_read = 0
    /\ pc' = "done"
    /\ report' = Err("No attendance CSV/XLSX files found in the directory.")
    /\ UNCHANGED <<config, files_read, header, participants, students,
                   sessions_processed, session, tally, input, output, state, io>>
    /\ UNCHANGED <<commands, picked>>

\* after the last file: the scores, the sort and the report
Finish ==
    /\ pc = "loop"
    /\ files_read > 0
    /\ LET scored == with_scores(students, config)
       IN  /\ students' = scored
           /\ \E list \in Orderings(scored) :
                report' = Ok([students |-> sort_by(list),
                              sessions |-> sessions_processed,
                              total_points |-> config.total_points])
    /\ pc' = "done"
    /\ session' = NoSession
    /\ UNCHANGED <<config, files_read, header, participants, sessions_processed,
                   tally, input, output, state, io>>
    /\ UNCHANGED <<commands, picked>>

\* the command's result reaches App::update as Message::AnalysisDone
AnalysisDone ==
    /\ pc = "done"
    /\ state' = analysis_done(state, report)
    /\ pc' = "idle"
    /\ UNCHANGED <<config, files_read, header, participants, students,
                   sessions_processed, session, tally, report, input, output, io>>
    /\ UNCHANGED <<commands, picked>>

Next ==
    OpenFile \/ ReadFails \/ ReadRecord \/ EndOfFile \/ NoFiles \/ Finish \/ AnalysisDone

Spec == Init /\ [][Next]_vars

(***************************************************************************)
(* classify_attendance on its own: every threshold pair and join time of   *)
(* a small range, the join times within a second of each minute boundary.  *)
(***************************************************************************)
MaxThreshold == 2

Thresholds == -1..MaxThreshold

ClassStartInstant == NaiveDateTimeNew(1, DefaultConfig.class_start)

JoinInstants ==
    { ClassStartInstant + 60 * m + sec : m \in -2..(MaxThreshold + 2), sec \in {0, 1, 59} }
        \cup {ClassStartInstant - 86400, ClassStartInstant + 86400}

InitClassify ==
    /\ pc = "classify"
    /\ input \in [first_join : JoinInstants,
                  class_start : {ClassStartInstant},
                  late_minutes : Thresholds,
                  absent_minutes : Thresholds]
    /\ output = None
    /\ config = DefaultConfig
    /\ files_read = 0
    /\ header = None
    /\ participants = EmptyMap
    /\ students = EmptyMap
    /\ sessions_processed = 0
    /\ session = NoSession
    /\ tally = NoTally
    /\ report = None
    /\ state = AppStateNew
    /\ io = <<>>
    /\ commands = <<>>
    /\ picked = None

Classify ==
    /\ pc = "classify"
    /\ output' = Some(classify_attendance(
                          [first_join |-> input.first_join],
                          input.class_start,
                          [late_minutes |-> input.late_minutes,
                           absent_minutes |-> input.absent_minutes]))
    /\ pc' = "classified"
    /\ UNCHANGED <<config, files_read, header, participants, students,
                   sessions_processed, session, tally, report, input, state, io>>
    /\ UNCHANGED <<commands, picked>>

NextClassify == Classify

SpecClassify == InitClassify /\ [][NextClassify]_vars

(***************************************************************************)
(* The record loop of read_csv_participants on whole files: a header       *)
(* record followed by up to MaxRows data records.                          *)
(***************************************************************************)
MaxRows == 3

DedupRecords ==
    { <<AlRay, Stamp("1/1/24", "1:25:00", "PM"), AlAtX>>,
      <<AlRay, Stamp("1/1/2024", "1:41:00", "PM"), AlAtX>>,
      <<AlRay, Stamp("1/1/24", "1:25:00", "PM"), AlAtY>>,
      <<Bo, Stamp("1/1/24", "1:40:59", "PM"), AtX>>,
      <<CyLi, Stamp("1/2/24", "1:30:00", "PM")>>,
      <<CyLiPadded, Stamp("1/1/24", "2:00:59", "PM"), EmptyString>> }

RowSequences == UNION { [1..n -> DedupRecords] : n \in 0..MaxRows }

\* read_csv_participants, from the records of the file to the map it builds
read_csv_participants(records) == read_records(NewFile, records)

InitDedup ==
    /\ pc = "dedup"
    /\ input \in RowSequences
    /\ output = None
    /\ config = DefaultConfig
    /\ files_read = 0
    /\ header = None
    /\ participants = EmptyMap
    /\ students = EmptyMap
    /\ sessions_processed = 0
    /\ session = NoSession
    /\ tally = NoTally
    /\ report = None
    /\ state = AppStateNew
    /\ io = <<>>
    /\ commands = <<>>
    /\ picked = None

Dedup ==
    /\ pc = "dedup"
    /\ LET result == read_csv_participants(<<HeaderRecord>> \o input)
       IN  /\ output' = Some(result)
           /\ header' = IF result.is_ok THEN result.value.header ELSE None
           /\ participants' = IF result.is_ok THEN result.value.participants ELSE EmptyMap
    /\ pc' = "deduped"
    /\ UNCHANGED <<config, files_read, students, sessions_processed, session, tally,
                   report, input, state, io>>
    /\ UNCHANGED <<commands, picked>>

NextDedup == Dedup

SpecDedup == InitDedup /\ [][NextDedup]_vars

(***************************************************************************)
(* parse_config.  A field of AttendanceConfig is a text whose tokens are   *)
(* padding spaces and the lexemes of times and numbers; the lexemes chrono *)
(* and the standard library accept are listed with their values.           *)
(***************************************************************************)
\* NaiveTime::parse_from_str(_, "%H:%M"), in seconds after midnight
TimeOfDay24 ==
    [lexeme \in {"09:00", "13:30", "15:00"} |->
        CASE lexeme = "09:00" -> 9 * 3600
          [] lexeme = "13:30" -> 13 * 3600 + 30 * 60
          [] lexeme = "15:00" -> 15 * 3600]

\* str::parse::<i64>
IntegerLexemes ==
    [lexeme \in {"-5", "10", "30"} |->
        CASE lexeme = "-5" -> -5
          [] lexeme = "10" -> 10
          [] lexeme = "30" -> 30]

\* str::parse::<f32>, in halves of a point
FloatLexemes ==
    [lexeme \in {"-5", "0.5", "1", "1.5", "10", "30"} |->
        CASE lexeme = "-5" -> -10
          [] lexeme = "0.5" -> 1
          [] lexeme = "1" -> 2
          [] lexeme = "1.5" -> 3
          [] lexeme = "10" -> 20
          [] lexeme = "30" -> 60]

\* a text that is one lexeme of the table
is_lexeme(text, table) == Len(text) = 1 /\ text[1] \in DOMAIN table

parse_time(text) ==
    IF is_lexeme(trim(text), TimeOfDay24)
    THEN Ok(TimeOfDay24[trim(text)[1]])
    ELSE Err(<<"Invalid time format: ", text, ". Use HH:MM.">>)

\* parse::<u64> in the place of parse::<i64>
parse_i64_unsigned(text, message) ==
    IF is_lexeme(trim(text), IntegerLexemes) /\ IntegerLexemes[trim(text)[1]] >= 0
    THEN Ok(IntegerLexemes[trim(text)[1]])
    ELSE Err(<<message>>)

\* .trim().parse::<i64>().map_err(|_| message)
parse_i64(text, message) ==
    IF is_lexeme(trim(text), IntegerLexemes)
    THEN Ok(IntegerLexemes[trim(text)[1]])
    ELSE Err(<<message>>)

parse_float(text, label) ==
    IF is_lexeme(trim(text), FloatLexemes)
    THEN Ok(FloatLexemes[trim(text)[1]])
    ELSE Err(<<label, " must be a number.">>)

parse_config(cfg) ==
    LET class_start == parse_time(cfg.class_start)
        class_end == parse_time(cfg.class_end)
        late_minutes == parse_i64(cfg.late_minutes, "Late minutes must be a number.")
        absent_minutes == parse_i64(cfg.absent_minutes, "Absent minutes must be a number.")
        total_points == parse_float(cfg.total_points, "Total points")
        late_penalty == parse_float(cfg.late_penalty, "Late penalty")
        absent_penalty == parse_float(cfg.absent_penalty, "Absent penalty")
    IN  IF ~class_start.is_ok THEN class_start
        ELSE IF ~class_end.is_ok THEN class_end
        ELSE IF class_end.value <= class_start.value
             THEN Err(<<"Class end time must be after the start time.">>)
        ELSE IF ~late_minutes.is_ok THEN late_minutes
        ELSE IF ~absent_minutes.is_ok THEN absent_minutes
        ELSE IF ~total_points.is_ok THEN total_points
        ELSE IF ~late_penalty.is_ok THEN late_penalty
        ELSE IF ~absent_penalty.is_ok THEN absent_penalty
        ELSE Ok([class_start |-> class_start.value,
                 late_minutes |-> late_minutes.value,
                 absent_minutes |-> absent_minutes.value,
                 total_points |-> total_points.value,
                 late_penalty |-> late_penalty.value,
                 absent_penalty |-> absent_penalty.value])

\* The texts of the fields: lexemes, padded lexemes, lexemes of another
\* kind and texts that are no lexeme.
ClassStartTexts ==
    { <<"13:30">>, <<" ", "13:30", " ">>, <<"15:00">>, <<"x">>, EmptyString }
ClassEndTexts ==
    { <<"15:00">>, <<"13:30", " ">>, <<"09:00">>, <<"x">>, <<"1", "5">> }
LateMinutesTexts == { <<"10">>, <<" ", "30">>, <<"-5">>, <<"1.5">>, EmptyString }
AbsentMinutesTexts == { <<"30">>, <<"-5">>, <<"10">>, <<"x">> }
TotalPointsTexts == { <<"10">>, <<"1.5", " ">>, <<"x">> }
LatePenaltyTexts == { <<"0.5">>, <<"-5">>, <<"13:30">> }
AbsentPenaltyTexts == { <<"1">>, <<"30">>, EmptyString }

AttendanceConfigs ==
    [class_start : ClassStartTexts,
     class_end : ClassEndTexts,
     late_minutes : LateMinutesTexts,
     absent_minutes : AbsentMinutesTexts,
     total_points : TotalPointsTexts,
     late_penalty : LatePenaltyTexts,
     absent_penalty : AbsentPenaltyTexts]

InitConfig ==
    /\ pc = "config"
    /\ input \in AttendanceConfigs
    /\ output = None
    /\ config = DefaultConfig
    /\ files_read = 0
    /\ header = None
    /\ participants = EmptyMap
    /\ students = EmptyMap
    /\ sessions_processed = 0
    /\ session = NoSession
    /\ tally = NoTally
    /\ report = None
    /\ state = AppStateNew
    /\ io = <<>>
    /\ commands = <<>>
    /\ picked = None

\* let config = parse_config(config)
ParseConfig ==
    /\ pc = "config"
    /\ LET parsed == parse_config(input)
       IN  /\ output' = Some(parsed)
           /\ config' = IF parsed.is_ok THEN parsed.value ELSE config
    /\ pc' = "parsed"
    /\ UNCHANGED <<files_read, header, participants, students, sessions_processed,
                   session, tally, report, input, state, io>>
    /\ UNCHANGED <<commands, picked>>

NextConfig == ParseConfig

SpecConfig == InitConfig /\ [][NextConfig]_vars

(***************************************************************************)
(* load_attendance up to the file loop: the configuration, then the        *)
(* source path, then the list of files.                                    *)
(***************************************************************************)
\* The paths of the model, in the order of PathBuf's Ord, with the result
\* of path.extension().and_then(|ext| ext.to_str()) for each.
Paths ==
    << [name |-> "a.csv", extension |-> Some("csv")],
       [name |-> "b.xlsx", extension |-> Some("xlsx")],
       [name |-> "c.xls", extension |-> Some("xls")],
       [name |-> "d.txt", extension |-> Some("txt")],
       [name |-> "e", extension |-> None],
       [name |-> "f.CSV", extension |-> Some("CSV")] >>

\* is_attendance_file that takes every extension
is_attendance_file_any_extension(path) == path.extension.is_some

is_attendance_file(path) ==
    path.extension \in {Some("csv"), Some("xlsx"), Some("xls")}

\* the paths of a set that pass is_attendance_file, after files.sort()
RECURSIVE sorted_attendance_files(_, _)
sorted_attendance_files(entries, from) ==
    IF from > Len(Paths) THEN <<>>
    ELSE (IF Paths[from] \in entries /\ is_attendance_file(Paths[from])
          THEN <<Paths[from]>> ELSE <<>>)
             \o sorted_attendance_files(entries, from + 1)

\* What the `directory` argument names: a file, a directory with its
\* entries (read_dir can fail), or nothing that exists.
Sources ==
    { [kind |-> "file", path |-> Paths[i]] : i \in 1..Len(Paths) }
        \cup { [kind |-> "dir", readable |-> TRUE, entries |-> entries] :
                 entries \in SUBSET { Paths[i] : i \in 1..Len(Paths) } }
        \cup { [kind |-> "dir", readable |-> FALSE, entries |-> {}],
               [kind |-> "missing"] }

\* `let mut files = ...; files.sort(); if files.is_empty() ...`, with the
\* file system operations made on the way
select_files(directory) ==
    IF directory.kind = "file"
    THEN [io |-> <<"is_file">>,
          result |-> IF is_attendance_file(directory.path)
                     THEN Ok(<<directory.path>>)
                     ELSE Err(<<"Selected file is not a supported CSV/XLSX attendance export.">>)]
    ELSE IF directory.kind = "dir"
    THEN [io |-> <<"is_file", "is_dir", "read_dir">>,
          result |->
              IF ~directory.readable THEN Err(<<"Failed to read directory: ", "error">>)
              ELSE LET files == sorted_attendance_files(directory.entries, 1)
                   IN  IF Len(files) = 0
                       THEN Err(<<"No attendance CSV/XLSX files found in the directory.">>)
                       ELSE Ok(files)]
    ELSE [io |-> <<"is_file", "is_dir">>,
          result |-> Err(<<"Please select a valid directory or attendance file.">>)]

\* the start of load_attendance with the source selected before the
\* configuration is parsed
files_before_config(cfg, directory) ==
    LET parsed == parse_config(cfg)
        selected == select_files(directory)
    IN  IF ~parsed.is_ok
        THEN [io |-> selected.io, config |-> None, result |-> Err(parsed.error)]
        ELSE [io |-> selected.io, config |-> Some(parsed.value), result |-> selected.result]

\* load_attendance from its first statement to the file loop
config_then_files(cfg, directory) ==
    LET parsed == parse_config(cfg)
        selected == select_files(directory)
    IN  IF ~parsed.is_ok
        THEN [io |-> <<>>, config |-> None, result |-> Err(parsed.error)]
        ELSE [io |-> selected.io, config |-> Some(parsed.value), result |-> selected.result]

ValidConfig ==
    [class_start |-> <<"13:30">>, class_end |-> <<"15:00">>,
     late_minutes |-> <<"10">>, absent_minutes |-> <<"30">>,
     total_points |-> <<"10">>, late_penalty |-> <<"0.5">>, absent_penalty |-> <<"1">>]

SourceConfigs ==
    { ValidConfig,
      [ValidConfig EXCEPT !.class_start = <<"x">>],
      [ValidConfig EXCEPT !.class_end = <<"13:30">>],
      [ValidConfig EXCEPT !.absent_penalty = EmptyString] }

InitSource ==
    /\ pc = "start"
    /\ input \in [config : SourceConfigs, directory : Sources]
    /\ output = None
    /\ config = DefaultConfig
    /\ files_read = 0
    /\ header = None
    /\ participants = EmptyMap
    /\ students = EmptyMap
    /\ sessions_processed = 0
    /\ session = NoSession
    /\ tally = NoTally
    /\ report = None
    /\ state = AppStateNew
    /\ io = <<>>
    /\ commands = <<>>
    /\ picked = None

BeginLoad ==
    /\ pc = "start"
    /\ LET begun == config_then_files(input.config, input.directory)
       IN  /\ io' = begun.io
           /\ output' = Some(begun.result)
           /\ config' = IF begun.config.is_some THEN begun.config.value ELSE config
           /\ pc' = IF begun.result.is_ok THEN "loop" ELSE "done"
    /\ UNCHANGED <<files_read, header, participants, students, sessions_processed,
                   session, tally, report, input, state>>
    /\ UNCHANGED <<commands, picked>>

NextSource == BeginLoad

SpecSource == InitSource /\ [][NextSource]_vars

(***************************************************************************)
(* One iteration of the file loop on a whole file: the records of the      *)
(* file, up to MaxFileRows of them with the header anywhere, are read and  *)
(* the participants folded into the students of an earlier session.        *)
(***************************************************************************)
MaxFileRows == 3

SwappedHeader == <<FirstJoinTitle, NameTitle>>
PaddedNameRecord == <<<<Space>> \o NameTitle \o <<Space>>, FirstJoinTitle, EmailTitle>>
Soon == <<"s", "o", "o", "n">>

FileRecords ==
    { HeaderRecord,
      HeaderWithoutJoin,
      SwappedHeader,
      PaddedNameRecord,
      <<AlRay, Stamp("1/1/24", "1:25:00", "PM"), AlAtX>>,
      <<Bo, Stamp("1/1/24", "1:41:00", "PM"), AtX>>,
      <<EmptyString, Soon, AlAtX>>,
      <<Bo>>,
      <<Bo, Soon, AtX>>,
      <<Stamp("1/1/24", "1:25:00", "PM"), CyLi>> }

Files == UNION { [1..n -> FileRecords] : n \in 0..MaxFileRows }

\* the students after a first session in which the participant of "@x" was on time
PriorStudents ==
    [k \in {AtX} |->
        [name |-> Bo, surname |-> EmptyString, id |-> EmptyString, email |-> AtX,
         normal |-> 1, late |-> 0, absent |-> 0, score |-> 0]]

InitFile ==
    /\ pc = "file"
    /\ input \in Files
    /\ output = None
    /\ config = DefaultConfig
    /\ files_read = 1
    /\ header = None
    /\ participants = EmptyMap
    /\ students = PriorStudents
    /\ sessions_processed = 1
    /\ session = NoSession
    /\ tally = NoTally
    /\ report = None
    /\ state = AppStateNew
    /\ io = <<>>
    /\ commands = <<>>
    /\ picked = None

\* `let participants = read_participants(&path)?;` and the rest of the loop body
ReadFile ==
    /\ pc = "file"
    /\ LET result == read_csv_participants(input)
       IN  /\ output' = Some(result)
           /\ IF ~result.is_ok
              THEN /\ pc' = "done"
                   /\ report' = Err(result.error)
                   /\ UNCHANGED <<header, participants, students, sessions_processed,
                                  files_read>>
              ELSE /\ pc' = "loop"
                   /\ header' = result.value.header
                   /\ participants' = result.value.participants
                   /\ files_read' = files_read + 1
                   /\ \E list \in Orderings(result.value.participants) :
                        LET step == session_step(students, sessions_processed, list, config)
                        IN  /\ students' = step.students
                            /\ sessions_processed' = step.sessions_processed
                   /\ UNCHANGED report
    /\ UNCHANGED <<config, session, tally, input, state, io>>
    /\ UNCHANGED <<commands, picked>>

NextFile == ReadFile

SpecFile == InitFile /\ [][NextFile]_vars

(***************************************************************************)
(* detect_delimiter.  The bytes of a file are the sequence of its lines,   *)
(* a line the sequence of its characters.                                  *)
(***************************************************************************)
MaxLineLength == 4

Comma == ","
Semicolon == ";"

\* str::matches(c).count()
RECURSIVE count(_, _)
count(line, c) ==
    IF Len(line) = 0 THEN 0
    ELSE (IF Head(line) = c THEN 1 ELSE 0) + count(Tail(line), c)

\* sample.lines().find(|line| !line.trim().is_empty()).unwrap_or_default()
RECURSIVE first_line_with_text(_)
first_line_with_text(lines) ==
    IF Len(lines) = 0 THEN EmptyString
    ELSE IF Len(trim(Head(lines))) # 0 THEN Head(lines)
    ELSE first_line_with_text(Tail(lines))

\* detect_delimiter with the comma winning a tie with the tab
detect_delimiter_comma_on_tie(lines) ==
    LET line == first_line_with_text(lines)
        comma == count(line, Comma)
        tab == count(line, Tab)
        semicolon == count(line, Semicolon)
    IN  IF tab > comma /\ tab >= semicolon THEN Tab
        ELSE IF semicolon > comma THEN Semicolon
        ELSE Comma

detect_delimiter(lines) ==
    LET line == first_line_with_text(lines)
        comma == count(line, Comma)
        tab == count(line, Tab)
        semicolon == count(line, Semicolon)
    IN  IF tab >= comma /\ tab >= semicolon THEN Tab
        ELSE IF semicolon > comma THEN Semicolon
        ELSE Comma

\* the lines with text: up to MaxLineLength commas, tabs, semicolons and letters
TextLines ==
    { line \in UNION { [1..n -> {Comma, Tab, Semicolon, "a"}] : n \in 1..MaxLineLength } :
        \E i \in 1..Len(line) : ~is_whitespace(line[i]) }

BlankLines == { EmptyString, <<Space, Tab>> }

\* a file without text, or a line with text after at most one blank line
DelimitedFiles ==
    { <<>> } \cup { <<blank>> : blank \in BlankLines }
        \cup { <<line>> : line \in TextLines }
        \cup { <<blank, line>> : blank \in BlankLines, line \in TextLines }

InitDelimiter ==
    /\ pc = "delimiter"
    /\ input \in DelimitedFiles
    /\ output = None
    /\ config = DefaultConfig
    /\ files_read = 0
    /\ header = None
    /\ participants = EmptyMap
    /\ students = EmptyMap
    /\ sessions_processed = 0
    /\ session = NoSession
    /\ tally = NoTally
    /\ report = None
    /\ state = AppStateNew
    /\ io = <<>>
    /\ commands = <<>>
    /\ picked = None

DetectDelimiter ==
    /\ pc = "delimiter"
    /\ output' = Some(detect_delimiter(input))
    /\ pc' = "detected"
    /\ UNCHANGED <<config, files_read, header, participants, students,
                   sessions_processed, session, tally, report, input, state, io>>
    /\ UNCHANGED <<commands, picked>>

NextDelimiter == DetectDelimiter

SpecDelimiter == InitDelimiter /\ [][NextDelimiter]_vars

(***************************************************************************)
(* The file loop and the report on whole sessions: load_attendance after   *)
(* read_dir, with the vector read_participants returns for each path, and  *)
(* core::generate_report on the same vectors in the order given.           *)
(***************************************************************************)
MaxSessions == 2

FileNames ==
    { <<"B", ".", "c", "s", "v">>,
      <<"a", ".", "c", "s", "v">>,
      <<"a", "a", ".", "c", "s", "v">> }

\* a Participant as parse_participant_row builds it, joining on day 0
participant_of(full_name, email, time) ==
    LET names == split_name(full_name)
    IN  [name |-> names.name, surname |-> names.surname, id |-> extract_id(email),
         email |-> email, first_join |-> NaiveDateTimeNew(0, time)]

AlOnTime == participant_of(AlRay, AlAtX, 13 * 3600 + 30 * 60)
AlLiLate == participant_of(<<"A", "l", " ", "L", "i">>, AlAtY, 13 * 3600 + 45 * 60)
BoLate == participant_of(Bo, EmptyString, 13 * 3600 + 41 * 60)
CyAbsent == participant_of(CyLi, EmptyString, 14 * 3600 + 5 * 60)

\* vectors of participants: those a map's values can form, and two in which
\* a key occurs twice
SessionLists ==
    { <<>>, <<AlOnTime>>, <<AlLiLate>>, <<BoLate>>, <<CyAbsent>>,
      <<AlOnTime, BoLate>>, <<BoLate, CyAbsent>>, <<CyAbsent, AlLiLate>>,
      <<AlOnTime, AlLiLate>>, <<BoLate, BoLate>> }

ReportConfigs ==
    { ValidConfig,
      [ValidConfig EXCEPT !.late_minutes = <<"30">>, !.absent_minutes = <<"10">>,
                          !.total_points = <<"1.5", " ">>],
      [ValidConfig EXCEPT !.late_minutes = <<"x">>] }

\* the directory entries in the order read_dir yields them, with the
\* participants of each
Listings ==
    UNION { { list \in [1..n -> FileNames] :
                \A i, j \in 1..n : i # j => list[i] # list[j] } : n \in 1..MaxSessions }

\* files.sort() left out
sort_as_listed(files) == files

\* insert a path after the elements of the sorted sequence that are not greater
RECURSIVE insert_path(_, _)
insert_path(sorted, path) ==
    IF Len(sorted) = 0 THEN <<path>>
    ELSE IF cmp(path, Head(sorted)) = "Less" THEN <<path>> \o sorted
    ELSE <<Head(sorted)>> \o insert_path(Tail(sorted), path)

\* files.sort(): the paths of one directory compare as their file names do
RECURSIVE sort(_)
sort(files) ==
    IF Len(files) = 0 THEN <<>>
    ELSE insert_path(sort(SubSeq(files, 1, Len(files) - 1)), files[Len(files)])

\* the loop over the sessions, from empty students
RECURSIVE fold_sessions(_, _, _, _)
fold_sessions(records, processed, sessions, cfg) ==
    IF Len(sessions) = 0
    THEN [students |-> records, sessions_processed |-> processed]
    ELSE LET step == session_step(records, processed, Head(sessions), cfg)
         IN  fold_sessions(step.students, step.sessions_processed, Tail(sessions), cfg)

\* the loop, then the scores: the map the report is sorted from
scored_students(sessions, cfg) ==
    LET folded == fold_sessions(EmptyMap, 0, sessions, cfg)
    IN  [students |-> with_scores(folded.students, cfg),
         sessions_processed |-> folded.sessions_processed]

\* the keys of a vector are distinct, as those of a map's values are
distinct_keys(list) ==
    \A i, j \in 1..Len(list) : i # j => build_key(list[i]) # build_key(list[j])

InitReport ==
    /\ pc = "start"
    /\ \E listing \in Listings :
         input \in [config : ReportConfigs, listing : {listing},
                    contents : [{ listing[i] : i \in 1..Len(listing) } -> SessionLists]]
    /\ output = None
    /\ config = DefaultConfig
    /\ files_read = 0
    /\ header = None
    /\ participants = EmptyMap
    /\ students = EmptyMap
    /\ sessions_processed = 0
    /\ session = NoSession
    /\ tally = NoTally
    /\ report = None
    /\ state = AppStateNew
    /\ io = <<>>
    /\ commands = <<>>
    /\ picked = None

\* the report built from the sessions, for each order the map can yield
\* its values in
BuildReport(called, files, sessions) ==
    LET parsed == parse_config(input.config)
    IN  IF ~parsed.is_ok
        THEN /\ output' = Some([called |-> called, files |-> <<>>, sessions |-> <<>>,
                                result |-> Err(parsed.error)])
             /\ UNCHANGED <<config, students, sessions_processed>>
        ELSE LET scored == scored_students(sessions, parsed.value)
             IN  /\ config' = parsed.value
                 /\ students' = scored.students
                 /\ sessions_processed' = scored.sessions_processed
                 /\ \E list \in Orderings(scored.students) :
                      output' = Some([called |-> called, files |-> files,
                                      sessions |-> sessions,
                                      result |-> Ok([students |-> sort_by(list),
                                                     sessions |-> scored.sessions_processed,
                                                     total_points |-> parsed.value.total_points])])

\* state::load_attendance on a directory: the files sorted, each read into
\* the values of a map
LoadAttendance ==
    /\ pc = "start"
    /\ \A name \in DOMAIN input.contents : distinct_keys(input.contents[name])
    /\ LET files == sort(input.listing)
       IN  BuildReport("load_attendance", files,
                       [i \in 1..Len(files) |-> input.contents[files[i]]])
    /\ pc' = "done"
    /\ UNCHANGED <<files_read, header, participants, session, tally, report, input,
                   state, io>>
    /\ UNCHANGED <<commands, picked>>

\* core::generate_report on the vectors in the order given
GenerateReport ==
    /\ pc = "start"
    /\ BuildReport("generate_report", input.listing,
                   [i \in 1..Len(input.listing) |-> input.contents[input.listing[i]]])
    /\ pc' = "done"
    /\ UNCHANGED <<files_read, header, participants, session, tally, report, input,
                   state, io>>
    /\ UNCHANGED <<commands, picked>>

NextReport == LoadAttendance \/ GenerateReport

SpecReport == InitReport /\ [][NextReport]_vars

(***************************************************************************)
(* save_report: the file the dialog returns, the writer of the chosen      *)
(* format, and Message::ReportSaved with the result.  A path is its stem   *)
(* and the extension Path::extension finds.                                *)
(***************************************************************************)
Csv == "Csv"
Txt == "Txt"
Pdf == "Pdf"
ReportFormats == {Csv, Txt, Pdf}

\* what rfd::FileDialog::save_file returns: None when the dialog is cancelled
ChosenFiles ==
    {None} \cup
    { Some([stem |-> stem, extension |-> extension]) :
        stem \in {"report", "out"},
        extension \in {None, Some("pdf"), Some("PDF"), Some("txt"), Some("csv")} }

\* Path::with_extension
with_extension(path, extension) == [path EXCEPT !.extension = Some(extension)]

\* write_csv: the result and the files written; `writable` is whether the
\* file can be created and written
write_csv(path, writable) ==
    IF writable THEN [result |-> Ok("()"), written |-> <<path>>]
    ELSE [result |-> Err(<<"Failed to create CSV: ", "error">>), written |-> <<>>]

write_text(path, writable) ==
    IF writable THEN [result |-> Ok("()"), written |-> <<path>>]
    ELSE [result |-> Err(<<"Failed to create text: ", "error">>), written |-> <<>>]

write_pdf(path, writable) ==
    LET final_path ==
            IF path.extension.is_some
            THEN IF path.extension.value # "pdf" THEN with_extension(path, "pdf") ELSE path
            ELSE with_extension(path, "pdf")
    IN  IF writable THEN [result |-> Ok("()"), written |-> <<final_path>>]
        ELSE [result |-> Err(<<"Failed to write PDF: ", "error">>), written |-> <<>>]

\* state::save_report, with the dialog's answer: its result and the files written
save_report(format, chosen, writable) ==
    IF ~chosen.is_some
    THEN [result |-> Err(<<"Save cancelled. Please choose a file path to export.">>),
          written |-> <<>>]
    ELSE LET file == chosen.value
             wrote == CASE format = Csv -> write_csv(file, writable)
                        [] format = Txt -> write_text(file, writable)
                        [] format = Pdf -> write_pdf(file, writable)
         IN  IF wrote.result.is_ok THEN [result |-> Ok(file), written |-> wrote.written]
             ELSE wrote

\* the state after Message::ExportReport, a report loaded and a format chosen
StateWhileExporting(format) ==
    export_report(
        report_format_changed(analysis_done(run_analysis(AppStateNew), Ok(PreviousReport)),
                              format)).state

InitSave ==
    /\ pc = "export"
    /\ input \in [format : ReportFormats, chosen : ChosenFiles, writable : BOOLEAN]
    /\ state = StateWhileExporting(input.format)
    /\ output = None
    /\ config = DefaultConfig
    /\ files_read = 0
    /\ header = None
    /\ participants = EmptyMap
    /\ students = EmptyMap
    /\ sessions_processed = 0
    /\ session = NoSession
    /\ tally = NoTally
    /\ report = None
    /\ io = <<>>
    /\ commands = <<>>
    /\ picked = None

\* the command of Message::ExportReport runs save_report
SaveReport ==
    /\ pc = "export"
    /\ LET saved == save_report(state.report_format, input.chosen, input.writable)
       IN  /\ output' = Some(saved.result)
           /\ io' = saved.written
    /\ pc' = "saved"
    /\ UNCHANGED <<config, files_read, header, participants, students, sessions_processed,
                   session, tally, report, input, state>>
    /\ UNCHANGED <<commands, picked>>

\* its result reaches App::update as Message::ReportSaved
ReportSaved ==
    /\ pc = "saved"
    /\ state' = report_saved(state, output.value)
    /\ pc' = "shown"
    /\ UNCHANGED <<config, files_read, header, participants, students, sessions_processed,
                   session, tally, report, input, output, io>>
    /\ UNCHANGED <<commands, picked>>

NextSave == SaveReport \/ ReportSaved

SpecSave == InitSave /\ [][NextSave]_vars

(***************************************************************************)
(* App::update: the messages of the ANALYZE and EXPORT buttons and of the  *)
(* student buttons, which view() offers in every state, and the messages   *)
(* of the commands they start, which the runtime delivers in any order.    *)
(***************************************************************************)
MaxInFlight == 2

\* a report of two students, in the order of the sort
LongerReport ==
    [students |-> <<[name |-> Bo, surname |-> EmptyString, id |-> EmptyString,
                     email |-> AtX, normal |-> 1, late |-> 0, absent |-> 1,
                     score |-> DefaultConfig.total_points - DefaultConfig.absent_penalty],
                    [name |-> <<"A", "l">>, surname |-> <<"R", "a", "y">>,
                     id |-> <<"a", "l">>, email |-> AlAtX,
                     normal |-> 2, late |-> 0, absent |-> 0,
                     score |-> DefaultConfig.total_points]>>,
     sessions |-> 2,
     total_points |-> DefaultConfig.total_points]

\* a report whose first student is the second of LongerReport
OtherReport ==
    [students |-> <<LongerReport.students[2]>>,
     sessions |-> 2,
     total_points |-> DefaultConfig.total_points]

\* what load_attendance can return to Message::AnalysisDone
AnalysisResults ==
    { Ok(PreviousReport), Ok(LongerReport), Ok(OtherReport),
      Err("No attendance CSV/XLSX files found in the directory.") }

\* what save_report can return to Message::ReportSaved
SaveResults(command) ==
    { save_report(command.format, chosen, TRUE).result :
        chosen \in {None, Some([stem |-> "report", extension |-> Some("csv")])} }

\* a sequence without its i-th element
without(list, i) == SubSeq(list, 1, i - 1) \o SubSeq(list, i + 1, Len(list))

InitUi ==
    /\ pc = "new"
    /\ state = AppStateNew
    /\ commands = <<>>
    /\ picked = None
    /\ input = None
    /\ output = None
    /\ config = DefaultConfig
    /\ files_read = 0
    /\ header = None
    /\ participants = EmptyMap
    /\ students = EmptyMap
    /\ sessions_processed = 0
    /\ session = NoSession
    /\ tally = NoTally
    /\ report = None
    /\ io = <<>>

\* the ANALYZE button: Message::RunAnalysis and the command it returns
UiRunAnalysis ==
    /\ Len(commands) < MaxInFlight
    /\ state' = run_analysis(state)
    /\ commands' = Append(commands, [perform |-> "load_attendance"])
    /\ pc' = "RunAnalysis"
    /\ UNCHANGED <<picked, input, output, config, files_read, header, participants,
                   students, sessions_processed, session, tally, report, io>>

\* a load_attendance command finishes: Message::AnalysisDone
UiAnalysisDone ==
    /\ \E i \in 1..Len(commands) :
         /\ commands[i].perform = "load_attendance"
         /\ commands' = without(commands, i)
    /\ \E result \in AnalysisResults : state' = analysis_done(state, result)
    /\ pc' = "AnalysisDone"
    /\ UNCHANGED <<picked, input, output, config, files_read, header, participants,
                   students, sessions_processed, session, tally, report, io>>

\* a student button, one for each index of report.students: Message::SelectStudent
SelectStudent ==
    /\ state.report.is_some
    /\ \E index \in 0..(Len(state.report.value.students) - 1) :
         /\ state' = select_student(state, index)
         /\ picked' = Some(state.report.value.students[index + 1])
    /\ pc' = "SelectStudent"
    /\ UNCHANGED <<commands, input, output, config, files_read, header, participants,
                   students, sessions_processed, session, tally, report, io>>

\* the EXPORT button: Message::ExportReport and the command it returns, if any
ExportReport ==
    /\ Len(commands) < MaxInFlight
    /\ LET exported == export_report(state)
       IN  /\ state' = exported.state
           /\ output' = exported.command
           /\ commands' = IF exported.command.is_some
                          THEN Append(commands, exported.command.value)
                          ELSE commands
    /\ pc' = "ExportReport"
    /\ UNCHANGED <<picked, input, config, files_read, header, participants,
                   students, sessions_processed, session, tally, report, io>>

\* a save_report command finishes: Message::ReportSaved
UiReportSaved ==
    /\ \E i \in 1..Len(commands) :
         /\ commands[i].perform = "save_report"
         /\ commands' = without(commands, i)
         /\ \E result \in SaveResults(commands[i]) : state' = report_saved(state, result)
    /\ pc' = "ReportSaved"
    /\ UNCHANGED <<picked, input, output, config, files_read, header, participants,
                   students, sessions_processed, session, tally, report, io>>

NextUi == UiRunAnalysis \/ UiAnalysisDone \/ SelectStudent \/ ExportReport \/ UiReportSaved

SpecUi == InitUi /\ [][NextUi]_vars

(***************************************************************************)
(* Properties                                                              *)
(***************************************************************************)
Counters(record) == <<record.normal, record.late, record.absent>>

\* the records of the report, when load_attendance returned one
Returned == pc = "done" /\ report.is_ok
ReportRecords ==
    { report.value.students[i] : i \in 1..Len(report.value.students) }

\* the last iteration of the file loop folded a session that had participants
SessionFolded == session.done /\ session.members # {}
\* the last iteration of the file loop met a file without participants
SessionSkipped == session.done /\ session.members = {}

Attended(k) ==
    tally.seen[k][Normal] + tally.seen[k][Late] + tally.seen[k][Absent]

\* C1: every student's normal and late counters are the numbers of sessions
\* in which the student was classified Normal and Late, and absent is the
\* number classified Absent plus the number of sessions with participants in
\* which the student's key does not occur, before or after the first
\* appearance; the report carries these counters.
C1_CountersMatchSessions ==
    /\ DOMAIN students = DOMAIN tally.seen
    /\ \A k \in DOMAIN students :
         /\ students[k].normal = tally.seen[k][Normal]
         /\ students[k].late = tally.seen[k][Late]
         /\ students[k].absent = tally.seen[k][Absent] + (tally.sessions - Attended(k))
    /\ Returned =>
         /\ report.value.sessions = tally.sessions
         /\ { <<build_key(r), Counters(r)>> : r \in ReportRecords }
                = { <<k, Counters(students[k])>> : k \in DOMAIN students }

\* a student on time in the first session and missing from the second one
\* ends with 1, 0, 1, next to a student first seen in the second session
C1_Witness ==
    /\ Returned
    /\ tally.sessions = 2
    /\ \E r \in ReportRecords :
         /\ Counters(r) = <<1, 0, 1>>
         /\ tally.seen[build_key(r)][Normal] = 1
    /\ \E r \in ReportRecords :
         /\ r.absent = 1
         /\ tally.seen[build_key(r)][Absent] = 0
         /\ r.late = 1

\* C2: after every completed iteration of the file loop, and in the report,
\* normal + late + absent of every record is sessions_processed.
C2_CountersSumToSessions ==
    /\ \A k \in DOMAIN students :
         students[k].normal + students[k].late + students[k].absent = sessions_processed
    /\ Returned =>
         \A r \in ReportRecords : r.normal + r.late + r.absent = report.value.sessions

C2_Witness ==
    /\ Returned
    /\ report.value.sessions = 2
    /\ \E r \in ReportRecords : r.normal = 1 /\ r.late = 1
    /\ \E r \in ReportRecords : r.absent = 2

Bump(triple, status) ==
    CASE status = Normal -> <<triple[1] + 1, triple[2], triple[3]>>
      [] status = Late -> <<triple[1], triple[2] + 1, triple[3]>>
      [] status = Absent -> <<triple[1], triple[2], triple[3] + 1>>

\* C3: when a session with participants has been folded, a record that
\* existed before and whose key is not in the session's key set has absent
\* one higher and nothing else changed; a record whose key is in the set has
\* exactly one counter one higher (the one of its status) than before, or
\* than its initial 0, 0, sessions_processed when the session created it.
C3_BackfillOnlyTheMissing ==
    SessionFolded =>
      /\ DOMAIN students = DOMAIN session.before \cup session.session_keys
      /\ \A k \in DOMAIN session.before \ session.session_keys :
           students[k] = [session.before[k] EXCEPT !.absent = @ + 1]
      /\ \A k \in session.session_keys :
           LET base == IF k \in DOMAIN session.before
                       THEN Counters(session.before[k])
                       ELSE <<0, 0, session.processed_before>>
           IN  /\ Counters(students[k]) = Bump(base, session.session_status[k])
               /\ Cardinality({ s \in AttendanceStatus :
                                  Counters(students[k]) = Bump(base, s) }) = 1

C3_Witness ==
    /\ SessionFolded
    /\ \E k \in DOMAIN session.before \ session.session_keys : students[k].absent = 1
    /\ \E k \in DOMAIN session.before \cap session.session_keys : students[k].late = 1
    /\ \E k \in session.session_keys \ DOMAIN session.before : students[k].absent = 2

\* C4: a file without participants changes no record, creates none and
\* leaves sessions_processed alone, so sessions_processed, and the report's
\* sessions, count the files that had participants.
C4_EmptySessionIsNoOp ==
    /\ SessionSkipped =>
         /\ students = session.before
         /\ sessions_processed = session.processed_before
    /\ sessions_processed = tally.sessions
    /\ Returned => report.value.sessions = tally.sessions

C4_Witness ==
    /\ SessionSkipped
    /\ files_read = 2
    /\ sessions_processed = 1
    /\ \E k \in DOMAIN students : students[k].late = 1

EarliestJoin(members) ==
    CHOOSE t \in { m.first_join : m \in members } :
        \A m \in members : t <= m.first_join

\* C5: the class start a session is classified against is the configured
\* class-start time on the date of the earliest first join of the session's
\* participants.
C5_ClassStartOnEarliestDate ==
    SessionFolded =>
      session.class_start
          = NaiveDateTimeNew(date(EarliestJoin(session.members)), config.class_start)

\* the whole minutes from class start to the join, floored at zero
WholeMinutes(first_join, class_start) ==
    IF first_join <= class_start THEN 0 ELSE (first_join - class_start) \div 60

Classified == pc = "classified"

ByThresholds(delta, late, absent) ==
    IF delta <= late THEN Normal
    ELSE IF delta <= absent THEN Late
    ELSE Absent

\* C6, as stated: Normal when delta <= late_minutes, Late when late_minutes <
\* delta <= absent_minutes, Absent otherwise; delta = late_minutes is
\* Normal, delta = late_minutes + 1 is Late when absent_minutes >
\* late_minutes, and delta = absent_minutes + 1 is Absent.
C6_AsStated ==
    Classified =>
      LET delta == WholeMinutes(input.first_join, input.class_start)
          late == input.late_minutes
          absent == input.absent_minutes
      IN  /\ output.value = ByThresholds(delta, late, absent)
          /\ delta = late => output.value = Normal
          /\ (delta = late + 1 /\ absent > late) => output.value = Late
          /\ delta = absent + 1 => output.value = Absent

\* C6, amended: as above, with delta = absent_minutes + 1 Absent when
\* absent_minutes >= late_minutes.
C6_ClassifyByThresholds ==
    Classified =>
      LET delta == WholeMinutes(input.first_join, input.class_start)
          late == input.late_minutes
          absent == input.absent_minutes
      IN  /\ output.value = ByThresholds(delta, late, absent)
          /\ delta = late => output.value = Normal
          /\ (delta = late + 1 /\ absent > late) => output.value = Late
          /\ (delta = absent + 1 /\ absent >= late) => output.value = Absent

\* a join 2 minutes and 59 seconds after class start, thresholds 1 and 2: Late
C6_Witness ==
    /\ Classified
    /\ input.first_join = input.class_start + 179
    /\ input.late_minutes = 1
    /\ input.absent_minutes = 2
    /\ output.value = Late

\* C7: a join at or before class start is classified as a join at class
\* start (delta 0) is, however early it was, and Normal when late_minutes >= 0.
C7_EarlyJoinIsOnTime ==
    (Classified /\ input.first_join <= input.class_start) =>
      /\ output.value = ByThresholds(0, input.late_minutes, input.absent_minutes)
      /\ input.late_minutes >= 0 => output.value = Normal

\* a join a day early with a negative late threshold: Late, as at class start
C7_Witness ==
    /\ Classified
    /\ input.first_join = input.class_start - 86400
    /\ input.late_minutes = -1
    /\ input.absent_minutes = 0
    /\ output.value = Late

Deduped == pc = "deduped"

\* the rearrangements of a sequence of records
Rearrangements(records) ==
    LET n == Len(records)
    IN  { [i \in 1..n |-> records[order[i]]] :
            order \in { o \in [1..n -> 1..n] : \A i, j \in 1..n : i # j => o[i] # o[j] } }

\* the participants the data records of a file parse to, in file order
ParticipantsOf(records) ==
    [i \in 1..Len(records) |-> parse_participant_row(HeaderRecord, records[i]).value.value]

\* the positions of the rows that resolve to key k
RowsWithKey(rows, k) == { i \in DOMAIN rows : build_key(rows[i]) = k }

KeysOf(rows) == { build_key(rows[i]) : i \in DOMAIN rows }

\* the positions, among the rows with key k, of those with the earliest join time
EarliestRows(rows, k) ==
    { i \in RowsWithKey(rows, k) :
        \A j \in RowsWithKey(rows, k) : rows[i].first_join <= rows[j].first_join }

RetainedFrom(records) == read_csv_participants(<<HeaderRecord>> \o records).value.participants

\* C8, as stated: of the rows of a file that resolve to one key, the
\* participant retained has the earliest join time, and the retained
\* participant is the same, in all its fields, for every permutation of the rows.
C8_AsStated ==
    Deduped =>
      LET rows == ParticipantsOf(input)
      IN  /\ DOMAIN participants = KeysOf(rows)
          /\ \A k \in DOMAIN participants :
               \E i \in EarliestRows(rows, k) : participants[k] = rows[i]
          /\ \A other \in Rearrangements(input) : RetainedFrom(other) = participants

\* C8, amended: the participant retained has the earliest join time of the
\* rows with its key, for every permutation of the rows; it is the same in
\* all its fields for every permutation when one row only has that earliest
\* time, and it is the first of the rows with the earliest time otherwise.
C8_EarliestJoinRetained ==
    Deduped =>
      \A other \in Rearrangements(input) :
        LET rows == ParticipantsOf(other)
            retained == RetainedFrom(other)
        IN  /\ DOMAIN retained = DOMAIN participants
            /\ DOMAIN retained = KeysOf(rows)
            /\ \A k \in DOMAIN retained :
                 LET earliest == EarliestRows(rows, k)
                 IN  /\ retained[k].first_join = participants[k].first_join
                     /\ \E i \in earliest :
                          /\ \A j \in earliest : i <= j
                          /\ retained[k] = rows[i]
                     /\ Cardinality(earliest) = 1 => retained[k] = participants[k]

\* a later row with an earlier join time replaced the participant of its key
C8_Witness ==
    /\ Deduped
    /\ Len(input) = 3
    /\ \E k \in DOMAIN participants :
         LET rows == ParticipantsOf(input)
         IN  /\ RowsWithKey(rows, k) = {1, 3}
             /\ rows[3].first_join < rows[1].first_join
             /\ participants[k] = rows[3]

\* the text of an e-mail address before its first "@"
IsTextBeforeAt(id, email) ==
    /\ Len(id) <= Len(email)
    /\ id = SubSeq(email, 1, Len(id))
    /\ \A i \in 1..Len(id) : id[i] # At
    /\ Len(id) < Len(email) => email[Len(id) + 1] = At

\* the key the claim gives a participant or record
ClaimedKey(r) ==
    IF r.id # EmptyString THEN r.id
    ELSE IF r.email # EmptyString THEN r.email
    ELSE r.name \o <<Space>> \o r.surname

\* C9: the key of a participant is its identity token (the e-mail text
\* before "@") when that is not empty, else the e-mail, else the given name
\* and surname joined by a space; the keys of the per-file map and of the
\* student records are this key, and a session's participants are
\* aggregated under the keys they were deduplicated under.
C9_IdentityKey ==
    /\ \A k \in DOMAIN participants :
         /\ IsTextBeforeAt(participants[k].id, participants[k].email)
         /\ k = ClaimedKey(participants[k])
    /\ \A k \in DOMAIN students :
         /\ IsTextBeforeAt(students[k].id, students[k].email)
         /\ k = ClaimedKey(students[k])
    /\ session.done =>
         /\ session.session_keys = session.dedup_keys
         /\ session.session_keys = { ClaimedKey(m) : m \in session.members }
         /\ session.session_keys \subseteq DOMAIN students

\* one session held a participant keyed by token, one by e-mail, one by name
C9_Witness ==
    /\ SessionFolded
    /\ \E k \in session.session_keys : students[k].id # EmptyString /\ k # students[k].email
    /\ \E k \in session.session_keys : students[k].id = EmptyString /\ k = students[k].email
    /\ \E k \in session.session_keys : students[k].email = EmptyString

\* C10: the score of every student of the report is the maximum of 0 and
\* total_points - late * late_penalty - absent * absent_penalty, on the
\* counters the student has after the last session; it is computed after the
\* loop only, and is never negative: 10 points, penalties 0.5 and 1, no late
\* and 20 absent sessions give 0.
C10_ScoreClampedAtZero ==
    /\ pc \notin {"done", "idle"} => \A k \in DOMAIN students : students[k].score = 0
    /\ Returned =>
         /\ ReportRecords = { students[k] : k \in DOMAIN students }
         /\ Len(report.value.students) = Cardinality(DOMAIN students)
         /\ \A r \in ReportRecords :
              LET raw == config.total_points - r.late * config.late_penalty
                                             - r.absent * config.absent_penalty
              IN  /\ r.score = IF raw > 0 THEN raw ELSE 0
                  /\ r.score >= 0
                  /\ r.normal + r.late + r.absent = tally.sessions
    /\ calculate_score([late |-> 0, absent |-> 20], DefaultConfig) = 0

\* a report with a student whose deductions exceed the total, next to one
\* with points left
C10_Witness ==
    /\ Returned
    /\ \E r \in ReportRecords :
         /\ config.total_points < r.late * config.late_penalty + r.absent * config.absent_penalty
         /\ r.score = 0
    /\ \E r \in ReportRecords : r.score > 0 /\ r.absent = 1

\* the absences of key k in the sessions from its first one on: the sessions
\* it was classified Absent in and the later ones it does not occur in
AbsencesSinceFirst(k) ==
    tally.seen[k][Absent] + (tally.sessions - tally.first[k] - Attended(k))

Clamped(points) == IF points > 0 THEN points ELSE 0

\* C11, as stated: the sessions folded before a student's first one add
\* nothing to the student's absent count and deduct nothing from the score.
C11_AsStated ==
    /\ \A k \in DOMAIN students : students[k].absent = AbsencesSinceFirst(k)
    /\ Returned =>
         \A r \in ReportRecords :
           r.score = Clamped(config.total_points - r.late * config.late_penalty
                                 - AbsencesSinceFirst(build_key(r)) * config.absent_penalty)

\* C11, amended: a student whose first session comes after n sessions with
\* participants starts with absent = n: each of those n sessions adds one to
\* the student's absent count and deducts one absent penalty from the score,
\* down to the floor of zero.
C11_EarlierSessionsCountAsAbsent ==
    /\ DOMAIN tally.first = DOMAIN students
    /\ \A k \in DOMAIN students :
         students[k].absent = tally.first[k] + AbsencesSinceFirst(k)
    /\ SessionFolded =>
         \A k \in session.session_keys \ DOMAIN session.before :
           /\ tally.first[k] = session.processed_before
           /\ students[k].absent
                = session.processed_before
                    + (IF session.session_status[k] = Absent THEN 1 ELSE 0)
    /\ Returned =>
         \A r \in ReportRecords :
           LET k == build_key(r)
           IN  r.score = Clamped(config.total_points - r.late * config.late_penalty
                                   - (tally.first[k] + AbsencesSinceFirst(k))
                                       * config.absent_penalty)

\* a student on time in the second session only: one absence, one penalty
C11_Witness ==
    /\ Returned
    /\ \E r \in ReportRecords :
         LET k == build_key(r)
         IN  /\ tally.first[k] = 1
             /\ tally.seen[k][Normal] = 1
             /\ Counters(r) = <<1, 0, 1>>
             /\ r.score = config.total_points - config.absent_penalty
             /\ r.score > 0

\* load_attendance returned an error
Failed == pc \in {"done", "idle"} /\ ~report.is_ok
\* App::update has handled the AnalysisDone message of the run
Delivered == pc = "idle"

\* C12: when reading or parsing a session file fails, also after earlier
\* files were folded, load_attendance returns the error message and nothing
\* else, none of the records of the earlier sessions; and after an
\* AnalysisDone carrying an error the state holds no report, neither a
\* partial one nor the one an earlier run loaded, and shows the message.
C12_ErrorsAreTerminal ==
    /\ Failed =>
         /\ DOMAIN report = {"is_ok", "error"}
         /\ students = EmptyMap
         /\ report.error \in {"Failed to read CSV", "Invalid datetime",
                              "No attendance CSV/XLSX files found in the directory."}
    /\ (Delivered /\ ~report.is_ok) =>
         /\ state.report = None
         /\ state.status = <<report.error>>
         /\ ~state.is_busy
    /\ (Delivered /\ report.is_ok) => state.report = Some(report.value)
    /\ ~Delivered => state = StateWhileAnalyzing

\* the second file failed after the first one was folded, and the report
\* of the earlier run is gone
C12_Witness ==
    /\ Delivered
    /\ ~report.is_ok
    /\ report.error = "Invalid datetime"
    /\ files_read = 1
    /\ StateWhileAnalyzing.report = Some(PreviousReport)
    /\ state.report = None

\* the start of load_attendance has run
Begun == pc \in {"loop", "done"} /\ output.is_some

SelectionErrors ==
    { <<"Selected file is not a supported CSV/XLSX attendance export.">>,
      <<"Failed to read directory: ", "error">>,
      <<"No attendance CSV/XLSX files found in the directory.">>,
      <<"Please select a valid directory or attendance file.">> }

\* C13: with an invalid configuration load_attendance returns the error of
\* parse_config and has made no file system operation: the source path is
\* not inspected and the directory is not listed; every file system
\* operation of a run comes after a configuration that parsed.
C13_ConfigBeforeFiles ==
    Begun =>
      LET parsed == parse_config(input.config)
      IN  /\ ~parsed.is_ok =>
               /\ output.value = Err(parsed.error)
               /\ output.value.error \notin SelectionErrors
               /\ io = <<>>
               /\ pc = "done"
          /\ io # <<>> => parsed.is_ok /\ config = parsed.value
          /\ parsed.is_ok => Head(io) = "is_file"

\* an invalid class start with a directory that holds attendance files
C13_Witness ==
    /\ Begun
    /\ input.config.class_start = <<"x">>
    /\ input.directory.kind = "dir"
    /\ Paths[1] \in input.directory.entries
    /\ io = <<>>
    /\ ~output.value.is_ok

UnsupportedFile == <<"Selected file is not a supported CSV/XLSX attendance export.">>
NoAttendanceFiles == <<"No attendance CSV/XLSX files found in the directory.">>
NotFileNorDirectory == <<"Please select a valid directory or attendance file.">>

HasAttendanceExtension(path) ==
    \E ext \in {"csv", "xlsx", "xls"} : path.extension = Some(ext)

\* C16: with a valid configuration, a single file whose extension is not
\* csv, xlsx or xls, a directory without a file of these extensions, and a
\* path that is neither a file nor a directory each make load_attendance
\* return an error and no report, and the three messages differ pairwise;
\* a supported file or a directory with one goes on to the file loop.
C16_DistinctSelectionErrors ==
    (Begun /\ input.config = ValidConfig) =>
      LET directory == input.directory
          result == output.value
      IN  /\ (directory.kind = "file" /\ ~HasAttendanceExtension(directory.path))
                => result = Err(UnsupportedFile)
          /\ (directory.kind = "dir" /\ directory.readable
                /\ \A path \in directory.entries : ~HasAttendanceExtension(path))
                => result = Err(NoAttendanceFiles)
          /\ directory.kind = "missing" => result = Err(NotFileNorDirectory)
          /\ UnsupportedFile # NoAttendanceFiles
          /\ UnsupportedFile # NotFileNorDirectory
          /\ NoAttendanceFiles # NotFileNorDirectory
          /\ ~result.is_ok => DOMAIN result = {"is_ok", "error"} /\ pc = "done"
          /\ (directory.kind = "file" /\ HasAttendanceExtension(directory.path))
                => result = Ok(<<directory.path>>)
          /\ (directory.kind = "dir" /\ directory.readable
                /\ \E path \in directory.entries : HasAttendanceExtension(path))
                => /\ result.is_ok
                   /\ { result.value[i] : i \in 1..Len(result.value) }
                        = { path \in directory.entries : HasAttendanceExtension(path) }

\* a directory that holds a text file, a file without extension and a file
\* with an upper-case extension: no attendance file
C16_Witness ==
    /\ Begun
    /\ input.config = ValidConfig
    /\ input.directory.kind = "dir"
    /\ input.directory.readable
    /\ input.directory.entries = {Paths[4], Paths[5], Paths[6]}
    /\ output.value = Err(NoAttendanceFiles)

Parsed == pc = "parsed"

\* the texts that, padding aside, are a lexeme of the table
Lexemes(table) == { <<lexeme>> : lexeme \in DOMAIN table }
ValueIn(table, text) == table[trim(text)[1]]

IsTime(text) == trim(text) \in Lexemes(TimeOfDay24)
IsInteger(text) == trim(text) \in Lexemes(IntegerLexemes)
IsNumber(text) == trim(text) \in Lexemes(FloatLexemes)

\* C14: parse_config returns ConfigValues exactly when both times parse as
\* HH:MM, class end is strictly after class start, both minute thresholds
\* parse as integers, negative or not and in either order, and the three
\* point fields parse as numbers; the ConfigValues then hold the parsed
\* values of the six fields, and in every other case the result is an
\* error and nothing else.
C14_ConfigValuesIffValid ==
    Parsed =>
      LET result == output.value
          valid ==
              /\ IsTime(input.class_start)
              /\ IsTime(input.class_end)
              /\ ValueIn(TimeOfDay24, input.class_end) > ValueIn(TimeOfDay24, input.class_start)
              /\ IsInteger(input.late_minutes)
              /\ IsInteger(input.absent_minutes)
              /\ IsNumber(input.total_points)
              /\ IsNumber(input.late_penalty)
              /\ IsNumber(input.absent_penalty)
      IN  /\ result.is_ok <=> valid
          /\ result.is_ok =>
               result.value
                 = [class_start |-> ValueIn(TimeOfDay24, input.class_start),
                    late_minutes |-> ValueIn(IntegerLexemes, input.late_minutes),
                    absent_minutes |-> ValueIn(IntegerLexemes, input.absent_minutes),
                    total_points |-> ValueIn(FloatLexemes, input.total_points),
                    late_penalty |-> ValueIn(FloatLexemes, input.late_penalty),
                    absent_penalty |-> ValueIn(FloatLexemes, input.absent_penalty)]
          /\ ~result.is_ok => DOMAIN result = {"is_ok", "error"}
          /\ (IsTime(input.class_start) /\ trim(input.class_end) = trim(input.class_start))
               => ~result.is_ok

\* a late threshold of 30 above a negative absent threshold is accepted
C14_Witness ==
    /\ Parsed
    /\ input.late_minutes = <<" ", "30">>
    /\ input.absent_minutes = <<"-5">>
    /\ output.value.is_ok
    /\ output.value.value.late_minutes = 30
    /\ output.value.value.absent_minutes = -5
    /\ output.value.value.total_points = 3

\* the checks of parse_config, in the order the claim gives
CheckOrder ==
    <<"class_start", "class_end", "end_after_start", "late_minutes",
      "absent_minutes", "total_points", "late_penalty", "absent_penalty">>

\* the check does not pass on cfg
Fails(check, cfg) ==
    CASE check = "class_start" -> ~IsTime(cfg.class_start)
      [] check = "class_end" -> ~IsTime(cfg.class_end)
      [] check = "end_after_start" ->
           /\ IsTime(cfg.class_start)
           /\ IsTime(cfg.class_end)
           /\ ValueIn(TimeOfDay24, cfg.class_end) <= ValueIn(TimeOfDay24, cfg.class_start)
      [] check = "late_minutes" -> ~IsInteger(cfg.late_minutes)
      [] check = "absent_minutes" -> ~IsInteger(cfg.absent_minutes)
      [] check = "total_points" -> ~IsNumber(cfg.total_points)
      [] check = "late_penalty" -> ~IsNumber(cfg.late_penalty)
      [] check = "absent_penalty" -> ~IsNumber(cfg.absent_penalty)

FirstFailing(cfg) ==
    LET failing == { i \in 1..Len(CheckOrder) : Fails(CheckOrder[i], cfg) }
    IN  CheckOrder[CHOOSE i \in failing : \A j \in failing : i <= j]

\* the message of a failing check
MessageOf(check, cfg) ==
    CASE check = "class_start" -> <<"Invalid time format: ", cfg.class_start, ". Use HH:MM.">>
      [] check = "class_end" -> <<"Invalid time format: ", cfg.class_end, ". Use HH:MM.">>
      [] check = "end_after_start" -> <<"Class end time must be after the start time.">>
      [] check = "late_minutes" -> <<"Late minutes must be a number.">>
      [] check = "absent_minutes" -> <<"Absent minutes must be a number.">>
      [] check = "total_points" -> <<"Total points", " must be a number.">>
      [] check = "late_penalty" -> <<"Late penalty", " must be a number.">>
      [] check = "absent_penalty" -> <<"Absent penalty", " must be a number.">>

TextsOf ==
    [class_start |-> ClassStartTexts, class_end |-> ClassEndTexts,
     late_minutes |-> LateMinutesTexts, absent_minutes |-> AbsentMinutesTexts,
     total_points |-> TotalPointsTexts, late_penalty |-> LatePenaltyTexts,
     absent_penalty |-> AbsentPenaltyTexts]

\* the messages a check gives when it is the only one to fail
MessagesOf(check) ==
    IF check = "end_after_start" THEN {MessageOf(check, ValidConfig)}
    ELSE { MessageOf(check, [ValidConfig EXCEPT ![check] = text]) :
             text \in { t \in TextsOf[check] : Fails(check, [ValidConfig EXCEPT ![check] = t]) } }

\* C15: with several invalid fields parse_config returns the error of the
\* first failing check in the order class start, class end, end after
\* start, late minutes, absent minutes, total points, late penalty, absent
\* penalty, and the message names the offending field: it is a message of
\* no other check, so that an invalid class start and an invalid class end
\* are told apart.
C15_FirstErrorNamesField ==
    (Parsed /\ ~output.value.is_ok) =>
      /\ output.value.error = MessageOf(FirstFailing(input), input)
      /\ \A i \in 1..Len(CheckOrder) :
           CheckOrder[i] # FirstFailing(input)
             => output.value.error \notin MessagesOf(CheckOrder[i])

\* C15, the order alone: the error is the one of the first failing check
C15_FailFastOrder ==
    (Parsed /\ ~output.value.is_ok) =>
      output.value.error = MessageOf(FirstFailing(input), input)

FileRead == pc \in {"loop", "done"} /\ output.is_some

HasName(record) == \E i \in 1..Len(record) : record[i] = NameTitle

\* the position of the first record with a cell "Name"; 0 when there is none
FirstNameRow(records) ==
    IF \E i \in 1..Len(records) : HasName(records[i])
    THEN CHOOSE i \in 1..Len(records) :
           /\ HasName(records[i])
           /\ \A j \in 1..(i - 1) : ~HasName(records[j])
    ELSE 0

Trimmed(record) == [i \in 1..Len(record) |-> trim(record[i])]

\* C17: a file whose header row holds "Name" and no "First Join" gives no
\* participant and no error whatever its other rows hold, also a join text
\* that is no timestamp, and the iteration leaves sessions_processed and
\* every student record as they were.
C17_HeaderWithoutJoinIsEmptySession ==
    (FileRead /\ FirstNameRow(input) # 0) =>
      LET head == Trimmed(input[FirstNameRow(input)])
      IN  (\A i \in 1..Len(head) : head[i] # FirstJoinTitle) =>
            /\ output.value = Ok([header |-> Some(head), participants |-> EmptyMap])
            /\ pc = "loop"
            /\ report = None
            /\ participants = EmptyMap
            /\ sessions_processed = 1
            /\ students = PriorStudents

\* the header Name, Email, then a row with an unreadable join text and a
\* row that would parse under a full header
C17_Witness ==
    /\ FileRead
    /\ input = <<HeaderWithoutJoin, <<Bo, Soon, AtX>>,
                 <<AlRay, Stamp("1/1/24", "1:25:00", "PM"), AlAtX>>>>
    /\ output.value.is_ok
    /\ participants = EmptyMap
    /\ students = PriorStudents
    /\ sessions_processed = 1

\* the cell of a record in a column, trimmed; empty when the record is too short
CellOf(record, column) ==
    IF column <= Len(record) THEN trim(record[column]) ELSE EmptyString

\* the column of a title in a header; the header holds the title
ColumnOf(head, title) ==
    CHOOSE i \in 1..Len(head) : head[i] = title /\ \A j \in 1..(i - 1) : head[j] # title

HasColumns(head) ==
    /\ \E i \in 1..Len(head) : head[i] = NameTitle
    /\ \E i \in 1..Len(head) : head[i] = FirstJoinTitle

\* the timestamps of the two accepted patterns
IsTimestamp(text) ==
    /\ Len(text) = 6
    /\ text[1] \in DOMAIN DateTwoDigitYear \cup DOMAIN DateFullYear
    /\ <<text[2], text[3]>> = <<",", " ">>
    /\ text[4] \in DOMAIN TimeOfDay12
    /\ text[5] = " "
    /\ text[6] \in {"AM", "PM"}

\* the row has no name, the name "Name", or no join time
SkippedRow(head, record) ==
    LET name == CellOf(record, ColumnOf(head, NameTitle))
        join_value == CellOf(record, ColumnOf(head, FirstJoinTitle))
    IN  name = EmptyString \/ name = NameTitle \/ join_value = EmptyString

\* the row has a name and a join time that is no timestamp
UnreadableRow(head, record) ==
    /\ ~SkippedRow(head, record)
    /\ ~IsTimestamp(CellOf(record, ColumnOf(head, FirstJoinTitle)))

\* C18: under a header with the columns Name and First Join, a row whose
\* name cell is empty or "Name", or whose join cell is empty, gives no
\* participant and no error whatever its other cells hold; a row with a
\* name and a join text of neither timestamp pattern makes the reading of
\* the file fail, and the result is then the error, without any
\* participant of the other rows; without such a row the participants are
\* those of the rows not skipped.
C18_SkippedAndUnreadableRows ==
    (FileRead /\ FirstNameRow(input) # 0) =>
      LET head == Trimmed(input[FirstNameRow(input)])
          rows == (FirstNameRow(input) + 1)..Len(input)
      IN  HasColumns(head) =>
            /\ ~output.value.is_ok <=> \E i \in rows : UnreadableRow(head, input[i])
            /\ ~output.value.is_ok =>
                 /\ output.value = Err("Invalid datetime")
                 /\ report = output.value
                 /\ participants = EmptyMap
                 /\ students = PriorStudents
                 /\ pc = "done"
            /\ output.value.is_ok =>
                 DOMAIN participants
                   = { build_key(parse_participant_row(head, input[i]).value.value) :
                         i \in { r \in rows : ~SkippedRow(head, input[r]) } }

\* a row without a name and with an unreadable join text is passed over,
\* and the row after it gives the only participant
C18_Witness ==
    /\ FileRead
    /\ input = <<HeaderRecord, <<EmptyString, Soon, AlAtX>>,
                 <<AlRay, Stamp("1/1/24", "1:25:00", "PM"), AlAtX>>>>
    /\ output.value.is_ok
    /\ Cardinality(DOMAIN participants) = 1
    /\ students[<<"a", "l">>].absent = 1

\* a readable row followed by a row with an unreadable join text: the
\* error, and no participant
C18_WitnessUnreadable ==
    /\ FileRead
    /\ input = <<HeaderRecord, <<AlRay, Stamp("1/1/24", "1:25:00", "PM"), AlAtX>>,
                 <<Bo, Soon, AtX>>>>
    /\ output.value = Err("Invalid datetime")
    /\ participants = EmptyMap

\* the records of a file from position `from` on
RecordsFrom(records, from) == SubSeq(records, from, Len(records))

\* C19: the header of a file is the first row with a cell exactly "Name",
\* its cells trimmed; the rows before it give no participant and no error
\* (the result is that of the file without them, and a file without such a
\* row gives nothing), each participant comes from a row after the header
\* read against the header's columns, and a later row with a cell "Name"
\* does not replace the header.
C19_FirstNameRowIsHeader ==
    FileRead =>
      LET first == FirstNameRow(input)
          result == output.value
      IN  /\ first = 0 => result = Ok(NewFile)
          /\ first # 0 =>
               LET head == Trimmed(input[first])
               IN  /\ result.is_ok => result.value.header = Some(head)
                   /\ result = read_csv_participants(RecordsFrom(input, first))
                   /\ result.is_ok =>
                        \A k \in DOMAIN result.value.participants :
                          \E i \in (first + 1)..Len(input) :
                            parse_participant_row(head, input[i])
                              = Ok(Some(result.value.participants[k]))
          /\ (\A i \in 1..Len(input) : ~HasName(input[i]) \/ ~result.is_ok)
               \/ result.value.header.is_some

\* a row with an unreadable join text and a row with the padded cell
\* " Name " come before the header and do no harm; the row after the
\* header Join, Name is read with the name in its second cell
C19_Witness ==
    /\ FileRead
    /\ input = <<<<Bo, Soon, AtX>>, SwappedHeader,
                 <<Stamp("1/1/24", "1:25:00", "PM"), CyLi>>>>
    /\ output.value.is_ok
    /\ header = Some(SwappedHeader)
    /\ DOMAIN participants = {CyLi}
    /\ participants[CyLi].name = <<"C", "y">>

\* a second header row, its columns in another order, is read as a data row
\* under the first header: its join cell "Name" is no timestamp
C19_WitnessSecondHeader ==
    /\ FileRead
    /\ input = <<HeaderRecord, SwappedHeader,
                 <<AlRay, Stamp("1/1/24", "1:25:00", "PM"), AlAtX>>>>
    /\ ~output.value.is_ok

Detected == pc = "detected"

\* the first line of the file that holds a character other than white space
FirstLineWithText(lines) ==
    LET with_text == { i \in 1..Len(lines) :
                         \E j \in 1..Len(lines[i]) : lines[i][j] \notin {Space, Tab} }
    IN  IF with_text = {} THEN EmptyString
        ELSE lines[CHOOSE i \in with_text : \A j \in with_text : i <= j]

Occurrences(line, c) == Cardinality({ i \in 1..Len(line) : line[i] = c })

\* C20: with c, t and s the numbers of commas, tabs and semicolons of the
\* first non-blank line, detect_delimiter returns the tab when t >= c and
\* t >= s, otherwise the semicolon when s > c, otherwise the comma; counts
\* 3, 0, 0 give the comma, and equal numbers of tabs and commas with no
\* more semicolons than tabs give the tab.
C20_DelimiterByCounts ==
    Detected =>
      LET line == FirstLineWithText(input)
          c == Occurrences(line, Comma)
          t == Occurrences(line, Tab)
          s == Occurrences(line, Semicolon)
      IN  /\ output.value = (IF t >= c /\ t >= s THEN Tab
                             ELSE IF s > c THEN Semicolon
                             ELSE Comma)
          /\ <<c, t, s>> = <<3, 0, 0>> => output.value = Comma
          /\ (t = c /\ s <= t) => output.value = Tab

\* a blank line, then a line with one comma and one tab: the tab
C20_Witness ==
    /\ Detected
    /\ input = <<<<Space, Tab>>, <<"a", Comma, "a", Tab>>>>
    /\ output.value = Tab

\* three commas and nothing else: the comma
C20_WitnessCommas ==
    /\ Detected
    /\ input = <<<<Comma, "a", Comma, Comma>>>>
    /\ output.value = Comma

\* the sequences that hold each element of a set once
Arrangements(set) ==
    LET n == Cardinality(set)
    IN  { list \in [1..n -> set] : \A i, j \in 1..n : i # j => list[i] # list[j] }

\* C21: the outcome of a run is a function of the file contents, the
\* listing and the configuration: whatever order the hash map of a file's
\* participants yields them in, folding the session gives the same student
\* records, and with them the same report.
C21_OutcomeIndependentOfHashOrder ==
    SessionFolded =>
      \A list \in Arrangements(session.members) :
        session_step(session.before, session.processed_before, list, config).students
            = students

\* load_attendance, or generate_report, has returned a report
Loaded == pc = "done" /\ output.is_some /\ "called" \in DOMAIN output.value
              /\ output.value.called = "load_attendance" /\ output.value.result.is_ok
Generated == pc = "done" /\ output.is_some /\ "called" \in DOMAIN output.value
                 /\ output.value.called = "generate_report" /\ output.value.result.is_ok
Built == Loaded \/ Generated
BuiltReport == output.value.result.value

\* the name, surname, id and email of a participant or record
Identity(r) == <<r.name, r.surname, r.id, r.email>>

\* the participants of a vector that have the key
WithKey(list, key) == { list[i] : i \in { n \in 1..Len(list) : build_key(list[n]) = key } }

\* the keys of the participants of the sessions
SessionKeys(sessions) ==
    UNION { { build_key(sessions[i][n]) : n \in 1..Len(sessions[i]) } : i \in 1..Len(sessions) }

\* the first session that has the key
FirstSessionWith(sessions, key) ==
    CHOOSE i \in 1..Len(sessions) :
        /\ WithKey(sessions[i], key) # {}
        /\ \A j \in 1..(i - 1) : WithKey(sessions[j], key) = {}

\* C22: the files are folded in ascending ordinal order of their paths,
\* whatever order the directory listed them in, and each student's name,
\* surname, id and email are those of the participant with its key in the
\* first file, in that order, that has the key.
C22_FirstSessionInPathOrderNames ==
    Loaded =>
      LET files == output.value.files
          sessions == output.value.sessions
      IN  /\ { files[i] : i \in 1..Len(files) }
                = { input.listing[i] : i \in 1..Len(input.listing) }
          /\ Len(files) = Len(input.listing)
          /\ \A i, j \in 1..Len(files) : i < j => cmp(files[i], files[j]) = "Less"
          /\ \A i \in 1..Len(files) : sessions[i] = input.contents[files[i]]
          /\ DOMAIN students = SessionKeys(sessions)
          /\ \A key \in DOMAIN students :
               \E p \in WithKey(sessions[FirstSessionWith(sessions, key)], key) :
                   Identity(students[key]) = Identity(p)
          /\ { BuiltReport.students[i] : i \in 1..Len(BuiltReport.students) }
                = { students[key] : key \in DOMAIN students }

\* a directory listed out of order, in which a key has one surname in the
\* file listed first and another in the file sorted first
C22_Witness ==
    /\ Loaded
    /\ output.value.files # input.listing
    /\ \E key \in DOMAIN students :
         /\ WithKey(input.contents[input.listing[1]], key) # {}
         /\ \A p \in WithKey(input.contents[input.listing[1]], key) :
              Identity(p) # Identity(students[key])

\* C23: the students of a report are in non-decreasing order of surname,
\* then given name, by code point, and there is exactly one record for each
\* key of a participant of the sessions.
C23_SortedOneRecordPerKey ==
    Built =>
      LET list == BuiltReport.students
      IN  /\ \A i, j \in 1..Len(list) :
               i < j =>
                 \/ cmp(list[i].surname, list[j].surname) = "Less"
                 \/ /\ cmp(list[i].surname, list[j].surname) = "Equal"
                    /\ cmp(list[i].name, list[j].name) # "Greater"
          /\ Len(list) = Cardinality(SessionKeys(output.value.sessions))
          /\ { build_key(list[i]) : i \in 1..Len(list) } = SessionKeys(output.value.sessions)

\* a report in which a student stands before one whose given name is smaller
C23_Witness ==
    /\ Built
    /\ \E i, j \in 1..Len(BuiltReport.students) :
         /\ i < j
         /\ cmp(BuiltReport.students[i].name, BuiltReport.students[j].name) = "Greater"

\* the counters and the score of a record
CountersAndScore(record) == <<record.normal, record.late, record.absent, record.score>>

\* C25: for given sessions, each with its participants, the counters and the
\* score of every student are the same in whatever order the sessions are
\* processed.
C25_CountersIndependentOfSessionOrder ==
    Built =>
      \A order \in Rearrangements(output.value.sessions) :
        LET other == scored_students(order, config).students
        IN  /\ DOMAIN other = DOMAIN students
            /\ \A key \in DOMAIN students :
                 CountersAndScore(other[key]) = CountersAndScore(students[key])

\* two sessions folded, one of them without a student of the other
C25_Witness ==
    /\ Built
    /\ Len(output.value.sessions) >= 2
    /\ \E key \in DOMAIN students :
         /\ Len(output.value.sessions[1]) > 0
         /\ WithKey(output.value.sessions[1], key) = {}
         /\ WithKey(output.value.sessions[2], key) # {}
         /\ students[key].late = 1
         /\ students[key].absent = 1

\* C26: in a report of core::generate_report the normal, late and absent
\* counters of every student add up to the number of sessions, also when a
\* session holds two participants with the same key.
C26_CountersSumToSessions ==
    Generated =>
      \A i \in 1..Len(BuiltReport.students) :
        LET record == BuiltReport.students[i]
        IN  record.normal + record.late + record.absent = BuiltReport.sessions

\* C24: a configuration whose absent threshold is below its late threshold
\* is accepted, and then no session counts anybody Late: every late counter
\* of the report is 0.
C24_NobodyLateWhenAbsentBelowLate ==
    /\ (pc = "done" /\ input.config.late_minutes = <<"30">>
                    /\ input.config.absent_minutes = <<"10">>)
          => output.value.result.is_ok
    /\ (Built /\ config.absent_minutes < config.late_minutes)
          => /\ \A i \in 1..Len(BuiltReport.students) : BuiltReport.students[i].late = 0
             /\ \A key \in DOMAIN students : students[key].late = 0

\* thresholds 30 and 10: a student who joined 11 minutes after the start is
\* Normal and one who joined 35 minutes after it is Absent
C24_Witness ==
    /\ Built
    /\ config.late_minutes = 30
    /\ config.absent_minutes = 10
    /\ \E i \in 1..Len(output.value.sessions) :
         /\ WithKey(output.value.sessions[i], build_key(BoLate)) = {BoLate}
         /\ WithKey(output.value.sessions[i], build_key(CyAbsent)) = {CyAbsent}
    /\ students[build_key(BoLate)].normal >= 1
    /\ students[build_key(CyAbsent)].absent >= 1

\* C30: two rows of a file whose emails are not empty and differ are kept
\* as two participants, each retained under its own address, also when the
\* addresses have the same text before "@".
C30_DistinctEmailsNotMerged ==
    Deduped =>
      LET rows == ParticipantsOf(input)
          retained == { participants[key].email : key \in DOMAIN participants }
      IN  \A i, j \in 1..Len(rows) :
            (Len(rows[i].email) > 0 /\ Len(rows[j].email) > 0
                 /\ rows[i].email # rows[j].email)
              => /\ {rows[i].email, rows[j].email} \subseteq retained
                 /\ Cardinality(DOMAIN participants) >= 2

\* C27: when save_report returns Ok(path), the report was written to that
\* path and to no other, for every format and every chosen file name, and
\* the path in the 'Report saved to' status is the file written.
C27_SavedPathIsWrittenPath ==
    /\ (pc \in {"saved", "shown"} /\ output.value.is_ok) => io = <<output.value.value>>
    /\ (pc = "shown" /\ output.value.is_ok)
          => \E path \in { io[i] : i \in 1..Len(io) } :
                state.status = <<"Report saved to ", path>>

\* C28: is_busy is true in every state in which a command started by
\* RunAnalysis or ExportReport has still to deliver its message, whatever
\* the order of the user's messages and the completions; and ExportReport
\* without a report starts no command and leaves is_busy false.
C28_BusyWhileCommandInFlight ==
    /\ Len(commands) > 0 => state.is_busy
    /\ (pc = "ExportReport" /\ ~state.report.is_some)
          => /\ ~output.is_some
             /\ commands = <<>> => ~state.is_busy

\* C29: when a student is selected and a report is loaded, the index is one
\* of report.students and the student at it is the one whose button the user
\* pressed, also after a later AnalysisDone has replaced the report.
C29_SelectionDenotesPickedStudent ==
    (state.selected_student.is_some /\ state.report.is_some)
       => LET index == state.selected_student.value
              list == state.report.value.students
          IN  /\ index < Len(list)
              /\ picked.is_some
              /\ Identity(list[index + 1]) = Identity(picked.value)

====
